---- MODULE Spec2Model ----
(***************************************************************************)
(* Verification model of the smartbot trading engine:                      *)
(*   advanced_risk.py  AdvancedRiskManager (risk state, position ledger)   *)
(*   live_trader.py    momentum scorer, Kelly sizing, exit scans, cycle    *)
(*   smartbot_brain.py SmartBotBrain (adaptive memory)                     *)
(*                                                                         *)
(* Units.  In the ledger specification prices and ATR are integers in      *)
(* tenths of a currency unit (50.0 is 500); in the scorer and the trading  *)
(* cycle they are in hundredths (40.00 is 4000).  P&L fractions and risk   *)
(* fractions are integers in basis points (0.05 is 500).  Brain            *)
(* multipliers are integers in thousandths (1.0 is 1000), the precision    *)
(* to which the code rounds them.                                          *)
(***************************************************************************)
EXTENDS Integers, Sequences, FiniteSets, TLC

(***************************************************************************)
(* Bounds of the model                                                     *)
(***************************************************************************)
MaxDay == 1
MaxStreak == 3
MaxAbsPnl == 1200

(***************************************************************************)
(* Program constants                                                       *)
(***************************************************************************)
base_risk == 1200
max_daily_loss_pct == 500
WinCap == 2800
TotalCap == 3000
ReinvestDen == 200000

Min(a, b) == IF a <= b THEN a ELSE b
Max(a, b) == IF a >= b THEN a ELSE b

\* n/d to the nearest integer, a tie to the even one (d > 0)
RoundDiv(n, d) ==
    LET q == n \div d
        r == n % d
    IN  IF 2 * r < d THEN q
        ELSE IF 2 * r > d THEN q + 1
        ELSE IF q % 2 = 0 THEN q ELSE q + 1

VARIABLES
    today,          \* calendar day the wall clock shows
    risk_state,     \* contents of risk_state.json
    risk_call,      \* what the latest get_dynamic_risk() evaluated and returned
    realized_today, \* the P&L update_trade_result was given on the current day
    positions,      \* contents of open_positions.json: ticker -> record
    pos_order,      \* the keys of open_positions.json, in file order
    exit_scan,      \* latest check_exit_signals(): prices read and list returned
    profit_exits,   \* list returned by the latest check_intraday_profits()
    df,             \* indicator-enriched series handed to compute_momentum_score
    score_calls,    \* the calls made on df: minutes since the open, and result
    kelly_in,       \* arguments of kelly_fraction
    kelly_out,      \* its result as a fraction num/den
    brain,          \* SmartBotBrain.brain, the learned memory
    brain_call,     \* latest get_combined_intelligence(): arguments and result
    cycle,          \* execute_live_trading: position in the cycle and its record
    cycles,         \* number of cycles started
    tripped_today,  \* the circuit breaker has returned 0 on the current day
    failures,       \* number of orders that came back without an order id
    last_order,     \* what place_market_order answered in the latest step
    idem_store,     \* contents of .idempotency.json: fingerprint -> key
    next_uuid,      \* number of keys uuid.uuid4() has produced
    key_log,        \* idempotency keys handed out, with ticker and quantity
    daily_loss,     \* daily_loss of trading_state.json
    order_args,     \* arguments and environment of the place_market_order calls
    order_call,     \* latest place_market_order(): what it saw and its outcome
    filter_call,    \* latest brain_filter_tickers(): the list given and returned
    limit_file,     \* open_positions.json of a nine-ticker watchlist
    disk,           \* the three JSON files: how far each is written, and what
    proc,           \* the trading process: running, its brain, the save under way
    brain_saved,    \* trades in the brain that was last written out completely
    wait,           \* wait_for_order_status: arguments, clock, attempt, outcome
    sizing,         \* the buy sizing block: what it was given and what it decided
    risk_per_trade  \* self.base_risk: TRADING212_RISK_PER_TRADE as configured

risk_vars == <<today, risk_state, risk_call, realized_today>>
ledger_vars == <<positions, pos_order, exit_scan, profit_exits>>
scorer_vars == <<df, score_calls>>
kelly_vars == <<kelly_in, kelly_out>>
brain_vars == <<brain, brain_call>>
cycle_vars == <<cycle, cycles, tripped_today, failures, last_order>>
bot_vars == <<idem_store, next_uuid, key_log, daily_loss, order_args, order_call>>
io_vars == <<disk, proc, brain_saved, wait>>
more_vars == <<sizing, risk_per_trade>>
ext_vars == <<bot_vars, filter_call, limit_file, io_vars, more_vars>>

(***************************************************************************)
(* AdvancedRiskManager: risk state                                         *)
(***************************************************************************)
\* P&L fractions a closed trade can realise, in basis points
TradePnls == {-600, -500, -300, -100, 0, 200, 300, 600}

load_risk_state_default(day) ==
    [consecutive_wins |-> 0, consecutive_losses |-> 0,
     daily_pnl |-> 0, last_update |-> day]

\* state as get_dynamic_risk leaves it after the new-day check
DayRolled(state, day) ==
    IF state.last_update # day
    THEN [state EXCEPT !.daily_pnl = 0, !.last_update = day]
    ELSE state

AfterLosses(state, risk) ==
    IF state.consecutive_losses >= 3 THEN (risk * 6) \div 10
    ELSE IF state.consecutive_losses >= 2 THEN (risk * 75) \div 100
    ELSE risk

AfterWins(state, risk) ==
    IF state.consecutive_wins >= 3 THEN Min((risk * 13) \div 10, WinCap)
    ELSE IF state.consecutive_wins >= 2 THEN (risk * 115) \div 100
    ELSE risk

AfterReinvest(state, risk) ==
    IF state.daily_pnl > 0
    THEN Min(risk * (ReinvestDen + state.daily_pnl), TotalCap * ReinvestDen)
    ELSE risk * ReinvestDen

\* the comparison with < in place of <=
CircuitBreakerStrict(state) == state.daily_pnl < -max_daily_loss_pct

CircuitBreaker(state) == state.daily_pnl <= -max_daily_loss_pct

\* value returned by get_dynamic_risk for the day-rolled state, in 1/RiskDen
DynamicRiskValue(state) ==
    IF CircuitBreaker(state) THEN 0
    ELSE AfterReinvest(state, AfterWins(state, AfterLosses(state, risk_per_trade)))

NoRiskCall == [called |-> FALSE, ret |-> 0, daily_pnl |-> 0, wins |-> 0, losses |-> 0]

GetDynamicRisk ==
    LET state == DayRolled(risk_state, today) IN
    /\ risk_state' = state
    /\ risk_call' = [called |-> TRUE,
                     ret |-> DynamicRiskValue(state),
                     daily_pnl |-> state.daily_pnl,
                     wins |-> state.consecutive_wins,
                     losses |-> state.consecutive_losses]
    /\ UNCHANGED <<today, realized_today>>
    /\ UNCHANGED <<ledger_vars, scorer_vars, kelly_vars, brain_vars, cycle_vars, ext_vars>>

update_trade_result(state, pnl) ==
    IF pnl > 0
    THEN [state EXCEPT !.daily_pnl = @ + pnl,
                       !.consecutive_wins = @ + 1,
                       !.consecutive_losses = 0]
    ELSE [state EXCEPT !.daily_pnl = @ + pnl,
                       !.consecutive_losses = @ + 1,
                       !.consecutive_wins = 0]

\* what update_trade_result has been given since the day began; the sum is
\* kept only where the trading cycle is followed over the days
NothingRealized == [audited |-> TRUE, traded |-> FALSE, pnl |-> 0]

NotAudited == [audited |-> FALSE, traded |-> FALSE, pnl |-> 0]

Realized(r, pnl) ==
    IF r.audited THEN [r EXCEPT !.traded = TRUE, !.pnl = @ + pnl] ELSE r

NewDay(r) == [r EXCEPT !.traded = FALSE, !.pnl = 0]

\* the counters and the sum stay inside the bounds of the model
WithinRiskBounds(state) ==
    /\ state.consecutive_wins <= MaxStreak
    /\ state.consecutive_losses <= MaxStreak
    /\ state.daily_pnl <= MaxAbsPnl
    /\ state.daily_pnl >= -MaxAbsPnl

UpdateTradeResult ==
    \E pnl \in TradePnls :
        /\ WithinRiskBounds(update_trade_result(risk_state, pnl))
        /\ risk_state' = update_trade_result(risk_state, pnl)
        /\ realized_today' = Realized(realized_today, pnl)
        /\ UNCHANGED <<today, risk_call>>
        /\ UNCHANGED <<ledger_vars, scorer_vars, kelly_vars, brain_vars, cycle_vars, ext_vars>>

NextDay ==
    /\ today < MaxDay
    /\ today' = today + 1
    /\ realized_today' = NewDay(realized_today)
    /\ UNCHANGED <<risk_state, risk_call>>
    /\ UNCHANGED <<ledger_vars, scorer_vars, kelly_vars, brain_vars, cycle_vars, ext_vars>>

RiskStart ==
    /\ today = 0
    /\ risk_state = load_risk_state_default(0)
    /\ risk_call = NoRiskCall

\* values TRADING212_RISK_PER_TRADE can be set to: below the default, the
\* default, above the 30% cap
ConfiguredRisks == {500, 1200, 3500}
ConfigPnls == {-600, -500, -100, 0, 100, 1200}

\* a risk_state.json left by earlier trades, and a configured base risk
ConfigInit ==
    /\ today \in {0, 1}
    /\ \E w, l \in 0..MaxStreak, p \in ConfigPnls :
          /\ w = 0 \/ l = 0
          /\ risk_state = [load_risk_state_default(0) EXCEPT
                              !.consecutive_wins = w, !.consecutive_losses = l,
                              !.daily_pnl = p]
    /\ risk_call = NoRiskCall
    /\ risk_per_trade \in ConfiguredRisks

RiskInit == RiskStart /\ realized_today = NotAudited

RiskAudited == RiskStart /\ realized_today = NothingRealized

(***************************************************************************)
(* AdvancedRiskManager: position ledger                                    *)
(***************************************************************************)
Tickers == {"AAPL", "TSLA"}

\* market prices the data feed can report, and the entry parameters
Prices == {460, 480, 485, 500, 506, 510, 520, 525, 575}
EntryPrices == {500}
AtrValues == {10}
Quantities == {10}
\* risk:reward ratios in tenths that a caller passes; 0: the defaults (None)
RiskRewards == {0, 15}
\* tickers the direct calls of the risk manager's methods are made for
ApiTickers == {"AAPL"}

NoPos ==
    [status |-> "NONE", quantity |-> 0, entry_price |-> 0, current_price |-> 0,
     atr |-> 0, stop_loss |-> 0, profit_target |-> 0, partial_taken |-> FALSE,
     high_price |-> 0, updated |-> FALSE, old |-> FALSE, factors |-> <<>>]

\* open_positions.json as one value: the records and the order of the keys
File(recs, order) == [recs |-> recs, order |-> order]

SeqToSet(s) == {s[i] : i \in 1..Len(s)}

\* the breakeven move with the comparison inverted (gain_pct <= 0.01)
TrailingStopInverted(entry_price, current_price, atr) ==
    IF (current_price - entry_price) * 100 <= entry_price
    THEN Max(entry_price, entry_price + (atr * 5) \div 10)
    ELSE entry_price - atr * 2

\* gain_pct >= 0.01 moves the stop to max(entry, entry + 0.5*atr)
calculate_trailing_stop(entry_price, current_price, atr) ==
    IF (current_price - entry_price) * 100 >= entry_price
    THEN Max(entry_price, entry_price + (atr * 5) \div 10)
    ELSE entry_price - atr * 2

\* risk_reward_ratio in tenths
calculate_profit_target(entry_price, atr, rr10) ==
    entry_price + (atr * 2 * rr10) \div 10

should_take_partial_profit(entry_price, current_price, atr) ==
    current_price >= entry_price + (atr * 2 * 5) \div 10

\* add_position: stop_loss / profit_target 0 stand for the default None
add_position(f, t, quantity, entry_price, atr, stop_loss, profit_target) ==
    File([f.recs EXCEPT ![t] =
            [status |-> "OPEN", quantity |-> quantity,
             entry_price |-> entry_price, current_price |-> entry_price,
             atr |-> atr,
             stop_loss |-> IF stop_loss # 0 THEN stop_loss
                           ELSE entry_price - atr * 2,
             profit_target |-> IF profit_target # 0 THEN profit_target
                               ELSE entry_price + atr * 2,
             partial_taken |-> FALSE, high_price |-> 0, updated |-> FALSE,
             old |-> FALSE, factors |-> <<>>]],
         IF t \in SeqToSet(f.order) THEN f.order ELSE Append(f.order, t))

update_position(f, t, current_price) ==
    IF f.recs[t].status # "OPEN" THEN f
    ELSE File([f.recs EXCEPT ![t].current_price = current_price,
                             ![t].stop_loss = calculate_trailing_stop(
                                  f.recs[t].entry_price, current_price,
                                  f.recs[t].atr),
                             ![t].updated = TRUE],
              f.order)

\* get_open_positions: the OPEN records only, in file order
OpenOrder(f) == SelectSeq(f.order, LAMBDA t : f.recs[t].status = "OPEN")

get_open_positions(f) ==
    File([t \in Tickers |-> IF f.recs[t].status = "OPEN" THEN f.recs[t] ELSE NoPos],
         OpenOrder(f))

Signal(t, action, reason, price, portion) ==
    [ticker |-> t, action |-> action, reason |-> reason, price |-> price,
     portion |-> portion]

\* one iteration of the loop of check_exit_signals for ticker t at price p;
\* st = [file, snap, sigs]: the file, the snapshot dict and the list so far
ExitIteration(st, t, p) ==
    LET pos == st.snap.recs[t]
        file1 == update_position(st.file, t, p)
        sigs1 == IF p <= pos.stop_loss
                 THEN Append(st.sigs, Signal(t, "SELL", "STOP_LOSS", p, 0))
                 ELSE st.sigs
        take == should_take_partial_profit(pos.entry_price, p, pos.atr)
                    /\ ~pos.partial_taken
        snap2 == IF take
                 THEN File([st.snap.recs EXCEPT ![t].partial_taken = TRUE],
                           st.snap.order)
                 ELSE st.snap
        sigs2 == IF take
                 THEN Append(sigs1, Signal(t, "SELL_PARTIAL", "PROFIT_TARGET_1X", p, 7))
                 ELSE sigs1
        file2 == IF take THEN snap2 ELSE file1
        sigs3 == IF p >= pos.profit_target
                 THEN Append(sigs2, Signal(t, "SELL", "PROFIT_TARGET_FULL", p, 0))
                 ELSE sigs2
    IN  IF p = 0 THEN st
        ELSE [file |-> file2, snap |-> snap2, sigs |-> sigs3]

RECURSIVE ExitLoop(_, _, _)
ExitLoop(keys, st, price) ==
    IF keys = <<>> THEN st
    ELSE ExitLoop(Tail(keys), ExitIteration(st, Head(keys), price[Head(keys)]), price)

\* check_exit_signals with the prices the data feed returns (0: no data)
check_exit_signals(f, price) ==
    LET snap == get_open_positions(f)
    IN  ExitLoop(snap.order, [file |-> f, snap |-> snap, sigs |-> <<>>], price)

\* an iteration that never appends a signal
IntradaySilent(st, t) == st

\* one iteration of the loop of check_intraday_profits for ticker t
IntradayIteration(st, t) ==
    LET pos == st.snap.recs[t]
        entry_price == pos.entry_price
        current_price == pos.current_price
        atr == pos.atr
        stored_high == IF pos.high_price # 0 THEN pos.high_price ELSE current_price
        raise == current_price > stored_high
        high_price == IF raise THEN current_price ELSE stored_high
        file1 == IF raise /\ st.file.recs[t].status # "NONE"
                 THEN File([st.file.recs EXCEPT ![t].high_price = high_price],
                           st.file.order)
                 ELSE st.file
        gain100 == (current_price - entry_price) * 100
        sig == IF gain100 >= 15 * entry_price
               THEN <<Signal(t, "SELL", "BIG_PROFIT", current_price, 0)>>
               ELSE IF gain100 >= 5 * entry_price
               THEN <<Signal(t, "SELL_PARTIAL", "QUICK_PROFIT", current_price, 5)>>
               ELSE IF high_price * 100 > entry_price * 103
                       /\ current_price * 10 < high_price * 10 - atr * 15
               THEN <<Signal(t, "SELL", "TRAILING_STOP", current_price, 0)>>
               ELSE IF gain100 <= -8 * entry_price
               THEN <<Signal(t, "SELL", "DEEP_LOSS", current_price, 0)>>
               ELSE <<>>
    IN  IF entry_price <= 0 \/ pos.quantity <= 0 THEN st
        ELSE [file |-> file1, snap |-> st.snap, sigs |-> st.sigs \o sig]

RECURSIVE IntradayLoop(_, _)
IntradayLoop(keys, st) ==
    IF keys = <<>> THEN st
    ELSE IntradayLoop(Tail(keys), IntradayIteration(st, Head(keys)))

check_intraday_profits(f) ==
    LET snap == get_open_positions(f)
    IN  IntradayLoop(snap.order, [file |-> f, snap |-> snap, sigs |-> <<>>])

TheFile == File(positions, pos_order)

NoScan == [price |-> [t \in Tickers |-> 0], sigs |-> <<>>]

\* add_position as execute_live_trading calls it: stop_loss is the scorer's
\* price - 2*atr and profit_target comes from calculate_profit_target
AddPosition(t) ==
    \E q \in Quantities, e \in EntryPrices, a \in AtrValues, rr10 \in RiskRewards :
        LET f == add_position(TheFile, t, q, e, a,
                              IF rr10 # 0 THEN e - a * 2 ELSE 0,
                              IF rr10 # 0 THEN calculate_profit_target(e, a, rr10)
                              ELSE 0)
        IN  /\ positions' = f.recs
            /\ pos_order' = f.order
            /\ UNCHANGED <<exit_scan, profit_exits>>
            /\ UNCHANGED <<risk_vars, scorer_vars, kelly_vars, brain_vars, cycle_vars, ext_vars>>

UpdatePosition(t, p) ==
    /\ positions[t].status = "OPEN"
    /\ positions' = update_position(TheFile, t, p).recs
    /\ UNCHANGED <<pos_order, exit_scan, profit_exits>>
    /\ UNCHANGED <<risk_vars, scorer_vars, kelly_vars, brain_vars, cycle_vars, ext_vars>>

AddPositionCall == \E t \in ApiTickers : AddPosition(t)

UpdatePositionCall == \E t \in ApiTickers, p \in Prices : UpdatePosition(t, p)

CheckExitSignals ==
    \E price \in [Tickers -> Prices \cup {0}] :
        LET r == check_exit_signals(TheFile, price) IN
        /\ OpenOrder(TheFile) # <<>>
        /\ \A t \in Tickers : positions[t].status # "OPEN" => price[t] = 0
        /\ positions' = r.file.recs
        /\ pos_order' = r.file.order
        /\ exit_scan' = [price |-> price, sigs |-> r.sigs]
        /\ UNCHANGED profit_exits
        /\ UNCHANGED <<risk_vars, scorer_vars, kelly_vars, brain_vars, cycle_vars, ext_vars>>

CheckIntradayProfits ==
    LET r == check_intraday_profits(TheFile) IN
    /\ OpenOrder(TheFile) # <<>>
    /\ positions' = r.file.recs
    /\ pos_order' = r.file.order
    /\ profit_exits' = r.sigs
    /\ UNCHANGED exit_scan
    /\ UNCHANGED <<risk_vars, scorer_vars, kelly_vars, brain_vars, cycle_vars, ext_vars>>

\* positions entered at 100.0 with atr 1.0, as check_intraday_profits can
\* find them: the price last stored, the peak stored (0: no high_price key
\* yet), and the quantity left
IntradayPrices == {900, 920, 1000, 1040, 1050, 1100, 1150, 1160}
IntradayHighs == {0, 1040, 1100}
IntradayQuantities == {0, 10}

IntradayPosition(q, p, h) ==
    [add_position(File([t \in Tickers |-> NoPos], <<>>), "AAPL", q, 1000, 10, 0, 0)
         .recs["AAPL"] EXCEPT !.current_price = p, !.high_price = h]

IntradayInit ==
    /\ \E qa \in IntradayQuantities, pa \in IntradayPrices, ha \in IntradayHighs,
          qt \in IntradayQuantities, pt \in IntradayPrices, ht \in IntradayHighs :
            positions = [t \in Tickers |->
                            IF t = "AAPL" THEN IntradayPosition(qa, pa, ha)
                            ELSE IntradayPosition(qt, pt, ht)]
    /\ pos_order = <<"AAPL", "TSLA">>
    /\ exit_scan = NoScan
    /\ profit_exits = <<>>

LedgerInit ==
    /\ positions = [t \in Tickers |-> NoPos]
    /\ pos_order = <<>>
    /\ exit_scan = NoScan
    /\ profit_exits = <<>>

LedgerNext ==
    \/ AddPositionCall
    \/ UpdatePositionCall
    \/ CheckExitSignals
    \/ CheckIntradayProfits

(***************************************************************************)
(* live_trader.py: compute_momentum_score                                  *)
(*                                                                         *)
(* A series is represented by the values of its last bars that the scorer  *)
(* reads.  Close, vwap and the bands are in hundredths, rsi in units.      *)
(***************************************************************************)
\* latest and previous (sma_short, sma_long)
SmaCases == {[s |-> 99, l |-> 100, ps |-> 99, pl |-> 100],
             [s |-> 101, l |-> 100, ps |-> 101, pl |-> 100],
             [s |-> 101, l |-> 100, ps |-> 100, pl |-> 100]}
RsiCases == {25, 40, 60, 70, 80}
\* latest and previous macd_hist
MacdCases == {[h |-> -1, ph |-> 0], [h |-> 1, ph |-> 2], [h |-> 2, ph |-> 1]}
\* bb_lower and bb_upper around the close 40.00
BandCases == {[lo |-> 4000, up |-> 4000], [lo |-> 3980, up |-> 4080],
              [lo |-> 3960, up |-> 4040], [lo |-> 3880, up |-> 4040],
              [lo |-> 3640, up |-> 4040]}
\* latest Volume against the rolling mean 1000
VolumeCases == {900, 1100, 1400}
\* close of the previous bar and of the bar before it
PrevCloseCases == {4024, 4000, 3994, 3988, 3976}
Prev2CloseCases == {4000, 3960}
\* vwap; 0: the column is absent or NaN
VwapCases == {0, 4040, 4000, 3960}
\* minutes between the 09:30 open and the wall clock at the call
MinutesSinceOpen == {15, 45}

\* the latest bar: Close, atr and the 20-bar mean of Volume (in thousands)
LatestClose == 4000
LatestAtr == 100
VolMean == 1000

Series ==
    [enough : {TRUE}, sma : SmaCases, rsi : RsiCases, macd : MacdCases,
     bb : BandCases, volume : VolumeCases, prev_close : PrevCloseCases,
     prev2_close : Prev2CloseCases, vwap : VwapCases]

\* a frame with fewer than 30 rows
ShortSeries ==
    [enough |-> FALSE, sma |-> [s |-> 99, l |-> 100, ps |-> 99, pl |-> 100],
     rsi |-> 60, macd |-> [h |-> -1, ph |-> 0], bb |-> [lo |-> 4000, up |-> 4000],
     volume |-> 900, prev_close |-> 4000, prev2_close |-> 4000, vwap |-> 0]

Factor(kind, val) == [kind |-> kind, val |-> val]

\* acc = [score, factors]
Add(acc, cond, pts, kind, val) ==
    IF cond THEN [score |-> acc.score + pts,
                  factors |-> Append(acc.factors, Factor(kind, val))]
    ELSE acc

SmaPoints(acc, d) ==
    LET a1 == Add(acc, d.sma.s > d.sma.l, 10, "SMA+", 0)
    IN  Add(a1, d.sma.s > d.sma.l /\ d.sma.ps <= d.sma.pl, 5, "GoldenX", 0)

RsiPoints(acc, d) ==
    IF 30 <= d.rsi /\ d.rsi <= 50 THEN Add(acc, TRUE, 15, "RSI*", d.rsi)
    ELSE IF 50 < d.rsi /\ d.rsi <= 65 THEN Add(acc, TRUE, 10, "RSI", d.rsi)
    ELSE IF d.rsi < 30 THEN Add(acc, TRUE, 8, "RSI!", d.rsi)
    ELSE IF d.rsi > 75 THEN Add(acc, TRUE, -5, "RSIX", d.rsi)
    ELSE acc

MacdPoints(acc, d) ==
    LET a1 == Add(acc, d.macd.h > 0, 8, "MACD+", 0)
    IN  Add(a1, d.macd.h > 0 /\ d.macd.h > d.macd.ph, 7, "MACD++", 0)

\* bb_pos = (price - bb_lower) / bb_range against 0.3, 0.6 and 0.85
BandPoints(acc, d) ==
    LET bb_range == d.bb.up - d.bb.lo
        off == LatestClose - d.bb.lo
    IN  IF bb_range <= 0 THEN acc
        ELSE IF off * 10 >= 3 * bb_range /\ off * 10 <= 6 * bb_range
             THEN Add(acc, TRUE, 10, "BB:mid", 0)
        ELSE IF off * 10 < 3 * bb_range THEN Add(acc, TRUE, 7, "BB:low", 0)
        ELSE IF off * 100 > 85 * bb_range THEN Add(acc, TRUE, -3, "BB:hi!", 0)
        ELSE acc

VolumePoints(acc, d) ==
    IF VolMean > 0 /\ d.volume * 10 > VolMean * 13 THEN Add(acc, TRUE, 10, "Vol+", 0)
    ELSE IF VolMean > 0 /\ d.volume > VolMean THEN Add(acc, TRUE, 5, "Vol", 0)
    ELSE acc

\* pct_1h > x percent, x in hundredths: (price - prev) / prev * 100 > x / 100
Pct1hAbove(d, x) == (LatestClose - d.prev_close) * 10000 > x * d.prev_close
Pct1hBelow(d, x) == (LatestClose - d.prev_close) * 10000 < x * d.prev_close
Pct3hAbove(d, x) == (LatestClose - d.prev2_close) * 10000 > x * d.prev2_close

\* pct_1h as the factor label carries it: one decimal, in tenths of a percent
Pct1hLabel(d) == RoundDiv((LatestClose - d.prev_close) * 1000, d.prev_close)

MomentumPoints(acc, d) ==
    LET a1 == IF Pct1hAbove(d, 50) THEN Add(acc, TRUE, 10, "+%", Pct1hLabel(d))
              ELSE IF Pct1hAbove(d, 20) THEN Add(acc, TRUE, 6, "+%", Pct1hLabel(d))
              ELSE IF Pct1hBelow(d, -50) THEN Add(acc, TRUE, -5, "%!", Pct1hLabel(d))
              ELSE acc
    IN  Add(a1, Pct3hAbove(d, 80), 5, "3h+", 0)

VwapPoints(acc, d) ==
    IF d.vwap = 0 THEN acc
    ELSE IF LatestClose * 1000 < d.vwap * 998 THEN Add(acc, TRUE, 10, "VWAP:buy", 0)
    ELSE IF LatestClose * 1000 < d.vwap * 1002 THEN Add(acc, TRUE, 5, "VWAP:at", 0)
    ELSE Add(acc, TRUE, -3, "VWAP:hi!", 0)

\* the bonus read from datetime.now(): first 30 minutes of the session
OpenSurgePoints(acc, d, mins) ==
    Add(acc, 0 <= mins /\ mins <= 30 /\ Pct1hAbove(d, 10), 10, "OpenSurge", 0)

\* the sum as it stands before  score = max(0, min(100, score))
RawScore(d, mins) ==
    OpenSurgePoints(
      VwapPoints(
        MomentumPoints(
          VolumePoints(
            BandPoints(
              MacdPoints(
                RsiPoints(
                  SmaPoints([score |-> 0, factors |-> <<>>], d), d), d), d), d), d), d),
      d, mins)

\* the clamp left out
ClampNone(score) == score

Clamp(score) == Max(0, Min(100, score))

\* confidence in hundredths
compute_momentum_score(d, mins) ==
    IF ~d.enough
    THEN [score |-> 0, action |-> "hold", confidence |-> 0, stop_loss |-> 0,
          factors |-> <<>>]
    ELSE
    LET raw == RawScore(d, mins)
        score == Clamp(raw.score)
        action == IF score >= 50 THEN "buy"
                  ELSE IF score <= 15 /\ d.rsi > 75 THEN "sell"
                  ELSE "hold"
        confidence == IF score >= 50 THEN 50 + (score - 50)
                      ELSE IF score <= 15 /\ d.rsi > 75 THEN 70
                      ELSE 0
    IN  [score |-> score, action |-> action,
         confidence |-> Min(confidence, 100),
         stop_loss |-> LatestClose - LatestAtr * 2,
         factors |-> raw.factors]

ScorerIdle ==
    /\ df = ShortSeries
    /\ score_calls = <<>>

ScorerInit ==
    /\ df \in Series \cup {ShortSeries}
    /\ score_calls = <<>>

\* one call of compute_momentum_score(df) at some wall-clock time
ComputeMomentumScore ==
    \E mins \in MinutesSinceOpen :
        /\ Len(score_calls) < 2
        /\ score_calls' = Append(score_calls,
                [mins |-> mins, out |-> compute_momentum_score(df, mins)])
        /\ UNCHANGED <<df, risk_vars, ledger_vars, kelly_vars, brain_vars, cycle_vars, ext_vars>>

(***************************************************************************)
(* live_trader.py: kelly_fraction                                          *)
(*                                                                         *)
(* win_rate in percent, avg_win and avg_loss in basis points; the result   *)
(* is the exact fraction num/den with den > 0.                             *)
(***************************************************************************)
WinRates == {0, 20, 55, 80, 100}
AvgWins == {0, 1, 150, 300, 10000}
AvgLosses == {0, 1, 100, 300, 10000}

Frac(num, den) == [num |-> num, den |-> den]

\* a/b <= c/d for positive denominators
FracLE(x, y) == x.num * y.den <= y.num * x.den

\* f left as computed, without  f = max(0.05, min(0.45, f))
KellyBandNone(f) == f

KellyBand(f) ==
    IF FracLE(f, Frac(1, 20)) THEN Frac(1, 20)
    ELSE IF FracLE(Frac(9, 20), f) THEN Frac(9, 20)
    ELSE f

\* b = avg_win / avg_loss;  f = (win_rate * b - (1 - win_rate)) / b
\*   = (win_rate * avg_win - (1 - win_rate) * avg_loss) / avg_win
kelly_fraction(win_rate, avg_win, avg_loss) ==
    IF avg_loss = 0 \/ avg_win = 0 THEN Frac(3, 20)
    ELSE LET f == KellyBand(Frac(win_rate * avg_win - (100 - win_rate) * avg_loss,
                                 100 * avg_win))
         IN  Frac(f.num, f.den * 2)

NoKelly == [win_rate |-> 0, avg_win |-> 0, avg_loss |-> 0]

KellyIdle ==
    /\ kelly_in = NoKelly
    /\ kelly_out = Frac(0, 1)

KellyInit ==
    /\ kelly_in \in [win_rate : WinRates, avg_win : AvgWins, avg_loss : AvgLosses]
    /\ kelly_out = Frac(0, 1)

KellyFraction ==
    /\ kelly_out = Frac(0, 1)
    /\ kelly_out' = kelly_fraction(kelly_in.win_rate, kelly_in.avg_win, kelly_in.avg_loss)
    /\ UNCHANGED <<kelly_in, risk_vars, ledger_vars, scorer_vars, brain_vars, cycle_vars, ext_vars>>

(***************************************************************************)
(* smartbot_brain.py: SmartBotBrain                                        *)
(*                                                                         *)
(* Multipliers are in thousandths (1.0 = 1000); round(x, 3) is the nearest *)
(* thousandth of the exact value, a tie going to the even one.             *)
(***************************************************************************)
MaxTrades == 3

Regimes == {"trend", "normal"}
Hours == {10, 15}
\* the tickers trades are closed in; the other ticker stays unknown to the brain
LearnTickers == {"AAPL"}
\* realised P&L of a learned trade, in thousandths of a dollar
LearnPnls == {-2000, 1000}
FactorLists == {<<>>, <<Factor("MACD+", 0)>>,
                <<Factor("RSI*", 40), Factor("+%", 6)>>}
FactorKeys ==
    {"SMA+", "GoldenX", "RSI:oversold", "RSI:buy_zone", "RSI:neutral",
     "RSI:overbought", "MACD+", "MACD++", "BB:mid", "BB:low", "BB:hi!", "Vol+",
     "Vol", "momentum:strong_up", "momentum:up", "momentum:strong_down",
     "momentum:down", "3h+", "VWAP:buy", "VWAP:at", "VWAP:hi!", "OpenSurge"}

\* the label carries rsi with no decimals and pct_1h in tenths of a percent
normalize_factor(f) ==
    IF f.kind \in {"RSI*", "RSI", "RSI!", "RSIX"}
    THEN IF f.val < 30 THEN "RSI:oversold"
         ELSE IF f.val <= 50 THEN "RSI:buy_zone"
         ELSE IF f.val <= 65 THEN "RSI:neutral"
         ELSE "RSI:overbought"
    ELSE IF f.kind \in {"+%", "%!"}
    THEN LET pct == f.val
         IN  IF pct > 5 THEN "momentum:strong_up"
             ELSE IF pct > 0 THEN "momentum:up"
             ELSE IF pct < -5 THEN "momentum:strong_down"
             ELSE "momentum:down"
    ELSE f.kind

NoTickerMemory ==
    [total_trades |-> 0, wins |-> 0, win_streak |-> 0, lose_streak |-> 0,
     total_pnl |-> 0]
NoCount == [wins |-> 0, losses |-> 0]

default_brain ==
    [total_trades_learned |-> 0,
     ticker_memory |-> [t \in Tickers |-> NoTickerMemory],
     factor_memory |-> [k \in FactorKeys |-> NoCount],
     regime |-> [r \in Regimes |-> NoCount],
     hour |-> [h \in Hours |-> NoCount],
     confidence_boost_tickers |-> [t \in Tickers |-> 0],
     confidence_penalty_tickers |-> [t \in Tickers |-> 0]]

Count(c, is_win) ==
    IF is_win THEN [c EXCEPT !.wins = @ + 1] ELSE [c EXCEPT !.losses = @ + 1]

\* the keys of entry_factors, counted once per occurrence
RECURSIVE LearnFactors(_, _, _)
LearnFactors(fm, factors, is_win) ==
    IF factors = <<>> THEN fm
    ELSE LET k == normalize_factor(Head(factors))
         IN  LearnFactors([fm EXCEPT ![k] = Count(@, is_win)], Tail(factors), is_win)

\* learning_rate in thousandths
LearningRate(total) == Min(500, 50 + total * 5)

\* (win_rate - 0.5) * learning_rate, capped at 0.3, as a number of 1/(2*total_trades) thousandths
Edge(stats, total) ==
    Min(600 * stats.total_trades,
        (2 * stats.wins - stats.total_trades) * LearningRate(total))

recalculate_params(b) ==
    LET total == b.total_trades_learned
        good(t) == LET st == b.ticker_memory[t] IN
                   /\ st.total_trades >= 2
                   /\ 5 * st.wins >= 3 * st.total_trades
                   /\ st.total_pnl > 0
        bad(t) ==  LET st == b.ticker_memory[t] IN
                   /\ st.total_trades >= 2
                   /\ 20 * st.wins <= 7 * st.total_trades
                   /\ st.total_pnl < 0
    IN  [b EXCEPT
            !.confidence_boost_tickers = [t \in Tickers |->
                IF good(t)
                THEN LET st == b.ticker_memory[t]
                     IN  1000 + RoundDiv(Edge(st, total), 2 * st.total_trades)
                ELSE 0],
            !.confidence_penalty_tickers = [t \in Tickers |->
                IF ~good(t) /\ bad(t)
                THEN LET st == b.ticker_memory[t]
                         e == Min(600 * st.total_trades,
                                  (st.total_trades - 2 * st.wins) * LearningRate(total))
                     IN  RoundDiv(2000 * st.total_trades - e, 2 * st.total_trades)
                ELSE 0]]

learn_from_trade(b, trade) ==
    LET is_win == trade.pnl > 0
        t == trade.ticker
        tm1 == [b.ticker_memory[t] EXCEPT
                   !.total_trades = @ + 1,
                   !.total_pnl = @ + trade.pnl,
                   !.wins = IF is_win THEN @ + 1 ELSE @,
                   !.win_streak = IF is_win THEN @ + 1 ELSE 0,
                   !.lose_streak = IF is_win THEN 0 ELSE @ + 1]
    IN  recalculate_params(
            [b EXCEPT
                !.ticker_memory[t] = tm1,
                !.factor_memory = LearnFactors(@, trade.entry_factors, is_win),
                !.regime[trade.regime] = Count(@, is_win),
                !.hour[trade.hour] = Count(@, is_win),
                !.total_trades_learned = @ + 1])

get_ticker_score(b, t) ==
    LET tm == b.ticker_memory[t]
        mult == IF b.confidence_boost_tickers[t] # 0 THEN b.confidence_boost_tickers[t]
                ELSE IF b.confidence_penalty_tickers[t] # 0
                     THEN b.confidence_penalty_tickers[t]
                ELSE 1000
    IN  IF tm.total_trades < 2 THEN 1000
        ELSE IF tm.win_streak >= 3 THEN RoundDiv(mult * 11, 10)
        ELSE IF tm.lose_streak >= 3 THEN RoundDiv(mult * 8, 10)
        ELSE mult

\* net_mult, carried in millionths: each counted factor multiplies by
\* 1 + (wr - 0.5) * 0.2 = (9 * total + 2 * wins) / (10 * total)
RECURSIVE FactorProduct(_, _, _)
FactorProduct(b, factors, acc) ==
    IF factors = <<>> THEN acc
    ELSE LET st == b.factor_memory[normalize_factor(Head(factors))]
             total == st.wins + st.losses
             counted == /\ total >= 2
                        /\ \/ 5 * st.wins >= 3 * total
                           \/ 20 * st.wins <= 7 * total
         IN  FactorProduct(b, Tail(factors),
                 IF counted THEN RoundDiv(acc * (9 * total + 2 * st.wins), 10 * total)
                 ELSE acc)

get_factor_score(b, factors) ==
    LET net == FactorProduct(b, factors, 1000000)
    IN  IF net <= 700000 THEN 700
        ELSE IF net >= 1300000 THEN 1300
        ELSE RoundDiv(net, 1000)

\* 1 + (wr - 0.5) * 0.4 = (4 * total + 2 * wins) / (5 * total)
get_regime_score(b, regime) ==
    LET wins == b.regime[regime].wins
        total == wins + b.regime[regime].losses
        m == Frac(4 * total + 2 * wins, 5 * total)
    IN  IF total < 3 THEN Frac(1, 1)
        ELSE IF 5 * wins >= 3 * total
             THEN IF FracLE(Frac(6, 5), m) THEN Frac(6, 5) ELSE m
        ELSE IF 20 * wins <= 7 * total
             THEN IF FracLE(m, Frac(7, 10)) THEN Frac(7, 10) ELSE m
        ELSE Frac(1, 1)

\* in twentieths: 1.1, 0.85 or 1.0
get_time_score(b, hour) ==
    LET wins == b.hour[hour].wins
        total == wins + b.hour[hour].losses
    IN  IF total < 3 THEN 20
        ELSE IF 5 * wins >= 3 * total THEN 22
        ELSE IF 20 * wins <= 7 * total THEN 17
        ELSE 20

\* the product, in thousandths, as a fraction
CombinedProduct(b, t, factors, regime, hour) ==
    LET r == get_regime_score(b, regime)
    IN  Frac(get_ticker_score(b, t) * get_factor_score(b, factors) * r.num
                 * get_time_score(b, hour),
             1000 * r.den * 20)

\* the product rounded without  combined = max(0.5, min(1.5, combined))
CombinedClampNone(c) == RoundDiv(c.num, c.den)

CombinedClamp(c) ==
    IF FracLE(c, Frac(500, 1)) THEN 500
    ELSE IF FracLE(Frac(1500, 1), c) THEN 1500
    ELSE RoundDiv(c.num, c.den)

get_combined_intelligence(b, t, factors, regime, hour) ==
    CombinedClamp(CombinedProduct(b, t, factors, regime, hour))

NoBrainCall ==
    [called |-> FALSE, ticker |-> "", factors |-> <<>>, regime |-> "", hour |-> 0,
     confidence_mult |-> 0]

BrainInit ==
    /\ brain = default_brain
    /\ brain_call = NoBrainCall

LearnFromTrade ==
    \E t \in LearnTickers, pnl \in LearnPnls, fl \in FactorLists, r \in Regimes, h \in Hours :
        /\ brain.total_trades_learned < MaxTrades
        /\ brain' = learn_from_trade(brain,
              [ticker |-> t, pnl |-> pnl, entry_factors |-> fl, regime |-> r, hour |-> h])
        /\ brain_call' = NoBrainCall
        /\ UNCHANGED <<risk_vars, ledger_vars, scorer_vars, kelly_vars, cycle_vars, ext_vars>>

GetCombinedIntelligence ==
    \E t \in Tickers, fl \in FactorLists, r \in Regimes, h \in Hours :
        /\ ~brain_call.called
        /\ brain_call' = [called |-> TRUE, ticker |-> t, factors |-> fl, regime |-> r,
                          hour |-> h,
                          confidence_mult |-> get_combined_intelligence(brain, t, fl, r, h)]
        /\ UNCHANGED <<brain, risk_vars, ledger_vars, scorer_vars, kelly_vars, cycle_vars, ext_vars>>

BrainNext == LearnFromTrade \/ GetCombinedIntelligence

(***************************************************************************)
(* live_trader.py: execute_live_trading                                    *)
(*                                                                         *)
(* One cycle is the sequence CycleStart (price update and the three exit   *)
(* scans), one ExitStep per signal of the combined list, RiskGate, and one *)
(* EntryStep per ranked ticker.  Prices are in hundredths (40.00 is 4000), *)
(* quantities in tenths of a share, the optional AI layers are not         *)
(* installed (ENHANCED_AI_AVAILABLE is False).                             *)
(***************************************************************************)
MaxCycles == 2
\* orders the broker fails (an exception, or a buy answered without an id)
MaxFailures == 1

\* closes the data feed reports for a position entered at 40.00
FeedPrices == {3680, 4000, 4200, 4600}
\* quantities the sizing block arrives at: 0.2 share on the fractional path
\* (free cash below 10), one share otherwise
BuyQuantities == {2, 10}
\* place_market_order: a response with a top-level id, one without (the
\* simulated order of the mock and demo modes), an exception
BrokerResults == {"id", "noid", "raise"}
\* tickers_212, the watchlist a cycle is run with, in ranked order; positions
\* in other tickers are only managed by the exit scans
RankOrders == {<<"AAPL">>}
\* wall-clock hour of a cycle and minutes since the open
CycleHours == {10}
CycleMinutes == {45}
\* TRADING212_MAX_POSITIONS and CONFIDENCE_THRESHOLD (in hundredths)
max_positions == 7
confidence_threshold == 40
\* TRADING212_MIN_AVG_VOLUME in thousands, TRADING212_MAX_ATR_PCT in percent
min_avg_volume == 200
max_atr_pct == 5

sectors ==
    [TECH |-> {"AAPL", "MSFT", "GOOGL", "META", "NVDA", "AMD", "NFLX"},
     AUTO |-> {"TSLA", "RIVN", "LCID"}]

BuySeries ==
    [enough |-> TRUE, sma |-> [s |-> 101, l |-> 100, ps |-> 101, pl |-> 100],
     rsi |-> 40, macd |-> [h |-> 2, ph |-> 1], bb |-> [lo |-> 3960, up |-> 4040],
     volume |-> 1100, prev_close |-> 4000, prev2_close |-> 4000, vwap |-> 0]
HoldSeries ==
    [enough |-> TRUE, sma |-> [s |-> 99, l |-> 100, ps |-> 99, pl |-> 100],
     rsi |-> 60, macd |-> [h |-> -1, ph |-> 0], bb |-> [lo |-> 4000, up |-> 4000],
     volume |-> 900, prev_close |-> 4000, prev2_close |-> 4000, vwap |-> 0]
SellSeries ==
    [enough |-> TRUE, sma |-> [s |-> 99, l |-> 100, ps |-> 99, pl |-> 100],
     rsi |-> 80, macd |-> [h |-> -1, ph |-> 0], bb |-> [lo |-> 4000, up |-> 4000],
     volume |-> 900, prev_close |-> 4000, prev2_close |-> 4000, vwap |-> 0]
EntrySeries == {BuySeries, HoldSeries, SellSeries}

\* (close_price - entry_price) / entry_price in basis points
PnlFraction(close_price, entry_price) ==
    ((close_price - entry_price) * 10000) \div entry_price

\* close_position: the record is marked CLOSED and the P&L goes to the risk
\* state; a ticker without a record returns at once
close_position(f, state, t, close_price) ==
    IF f.recs[t].status = "NONE" THEN [file |-> f, state |-> state, pnl |-> 0]
    ELSE LET pnl == PnlFraction(close_price, f.recs[t].entry_price)
         IN  [file |-> File([f.recs EXCEPT ![t].status = "CLOSED"], f.order),
              state |-> update_trade_result(state, pnl),
              pnl |-> pnl]

\* prices close_position is called with
ClosePrices == {485, 500, 510, 525}

\* a record of open_positions.json: never written, OPEN, or closed earlier
LedgerRecord(status) ==
    IF status = "NONE" THEN NoPos
    ELSE [add_position(File([t \in Tickers |-> NoPos], <<>>), "AAPL", 10, 500, 10, 0, 0)
              .recs["AAPL"] EXCEPT !.status = status]

CloseInit ==
    /\ positions \in [Tickers -> {LedgerRecord(st) : st \in {"NONE", "OPEN", "CLOSED"}}]
    /\ pos_order = SelectSeq(<<"AAPL", "TSLA">>, LAMBDA t : positions[t].status # "NONE")
    /\ exit_scan = NoScan
    /\ profit_exits = <<>>

\* risk_mgr.close_position(ticker, close_price, reason)
ClosePosition ==
    \E t \in Tickers, close_price \in ClosePrices :
        LET c == close_position(TheFile, risk_state, t, close_price)
        IN  /\ WithinRiskBounds(c.state)
            /\ positions' = c.file.recs
            /\ pos_order' = c.file.order
            /\ risk_state' = c.state
            /\ realized_today' = Realized(realized_today, c.pnl)
            /\ UNCHANGED <<today, risk_call, exit_scan, profit_exits>>
            /\ UNCHANGED <<scorer_vars, kelly_vars, brain_vars, cycle_vars, ext_vars>>

\* no limit at all
PositionLimitsOff(f, t) == TRUE

check_position_limits(f, t) ==
    LET open == {u \in DOMAIN f.recs : f.recs[u].status = "OPEN"}
        mine == {sec \in DOMAIN sectors : t \in sectors[sec]}
    IN  /\ Cardinality(open) < max_positions
        /\ \A sec \in mine : Cardinality(open \cap sectors[sec]) < 2

\* PHASE 0: update_position for every key of the file
RECURSIVE UpdatePrices(_, _, _)
UpdatePrices(keys, f, price) ==
    IF keys = <<>> THEN f
    ELSE UpdatePrices(Tail(keys),
             IF price[Head(keys)] = 0 THEN f
             ELSE update_position(f, Head(keys), price[Head(keys)]),
             price)

\* check_stale_positions: held for max_hours and pnl_pct < 0.3
RECURSIVE StaleLoop(_, _)
StaleLoop(keys, snap) ==
    IF keys = <<>> THEN <<>>
    ELSE LET pos == snap.recs[Head(keys)]
             stale == /\ pos.old
                      /\ (pos.current_price - pos.entry_price) * 1000
                             < 3 * pos.entry_price
         IN  (IF stale
              THEN <<Signal(Head(keys), "SELL", "RECYCLE", pos.current_price, 0)>>
              ELSE <<>>) \o StaleLoop(Tail(keys), snap)

check_stale_positions(f) ==
    LET snap == get_open_positions(f) IN StaleLoop(snap.order, snap)

\* round(qty * portion, 1) for qty in tenths and portion in tenths: a value
\* halfway between two tenths goes where the binary fraction falls
PartialQuantities(qty, portion) ==
    LET n == qty * portion
        lo == n \div 10
        rounded == IF n % 10 = 5 THEN {lo, lo + 1}
                   ELSE IF n % 10 < 5 THEN {lo} ELSE {lo + 1}
    IN  {Max(1, r) : r \in rounded}

\* brain_filter_tickers: avg_pnl is total_pnl / total_trades, in thousandths
Blocked(b, t) ==
    LET tm == b.ticker_memory[t]
        trades == tm.total_trades
    IN  \/ trades >= 20 /\ 100 * tm.wins < 35 * trades /\ tm.total_pnl < -50 * trades
        \/ trades >= 10 /\ 100 * tm.wins < 28 * trades
        \/ tm.lose_streak >= 5 /\ trades >= 5

Boosted(b, t) ==
    LET tm == b.ticker_memory[t]
    IN  tm.total_trades >= 10 /\ 100 * tm.wins > 55 * tm.total_trades /\ tm.total_pnl > 0

brain_filter_tickers(tickers, b) ==
    SelectSeq(tickers, LAMBDA t : ~Blocked(b, t) /\ Boosted(b, t))
        \o SelectSeq(tickers, LAMBDA t : ~Blocked(b, t) /\ ~Boosted(b, t))

\* confidence after the brain layer and the penalty / boost gate, as a
\* fraction of 1
EntryConfidence(b, t, signal, hour) ==
    LET c0 == Frac(signal.confidence, 100)
        mult == get_combined_intelligence(b, t, signal.factors, "normal", hour)
        known == b.ticker_memory[t].total_trades >= 2
        c1 == IF known THEN Frac(c0.num * mult, c0.den * 1000) ELSE c0
        c2 == IF FracLE(Frac(1, 1), c1) THEN Frac(1, 1) ELSE c1
        c3 == IF b.confidence_penalty_tickers[t] # 0 /\ signal.action = "buy"
              THEN Frac(c2.num * 85, c2.den * 100)
              ELSE IF b.confidence_boost_tickers[t] # 0 /\ signal.action = "buy"
              THEN LET c == Frac(c2.num * 105, c2.den * 100)
                   IN  IF FracLE(Frac(1, 1), c) THEN Frac(1, 1) ELSE c
              ELSE c2
    IN  c3

\* a position as a live cycle leaves it after a buy of BuySeries at 40.00
HeldPosition(quantity) ==
    LET signal == compute_momentum_score(BuySeries, 45)
        f == add_position(File([t \in Tickers |-> NoPos], <<>>), "AAPL", quantity,
                          LatestClose, LatestAtr, signal.stop_loss,
                          calculate_profit_target(LatestClose, LatestAtr, 10))
    IN  [f.recs["AAPL"] EXCEPT
            !.factors = SubSeq(signal.factors, 1, Min(6, Len(signal.factors)))]

\* open_positions.json when the first cycle of the model starts: empty, or
\* holding both tickers from earlier cycles
LedgerStart ==
    /\ \/ /\ positions = [t \in Tickers |-> NoPos]
          /\ pos_order = <<>>
       \/ /\ \E q \in BuyQuantities : positions = [t \in Tickers |-> HeldPosition(q)]
          /\ pos_order = <<"AAPL", "TSLA">>
    /\ exit_scan = NoScan
    /\ profit_exits = <<>>

NoCycle ==
    [pc |-> "idle", dry_run |-> FALSE, all_exits |-> <<>>, exit_log |-> <<>>,
     todo |-> <<>>, buys |-> {}, adds |-> {}, gated |-> FALSE, raised |-> FALSE]

CycleInit ==
    /\ cycle = NoCycle
    /\ cycles = 0
    /\ tripped_today = FALSE
    /\ failures = 0
    /\ last_order = "none"

\* an order is handed to place_market_order and it answers res
Broker(res) ==
    /\ res # "id" => failures < MaxFailures
    /\ failures' = IF res # "id" THEN failures + 1 ELSE failures
    /\ last_order' = res

\* a step of the cycle that hands no order to place_market_order
NoOrderPlaced ==
    /\ failures' = failures
    /\ last_order' = "none"

\* PHASE 0 and PHASE 1 up to the combined exit list
CycleStart ==
    \E dry_run \in BOOLEAN, price \in [Tickers -> FeedPrices \cup {0}] :
        LET f0 == UpdatePrices(pos_order, TheFile, price)
            stale_exits == check_stale_positions(f0)
            ex == check_exit_signals(f0, price)
            pr == check_intraday_profits(ex.file)
        IN  /\ cycle.pc = "idle"
            /\ cycles < MaxCycles
            /\ \A t \in Tickers : price[t] = 0 <=> positions[t].status # "OPEN"
            /\ cycles' = cycles + 1
            /\ positions' = pr.file.recs
            /\ pos_order' = pr.file.order
            /\ exit_scan' = [price |-> price, sigs |-> ex.sigs]
            /\ profit_exits' = pr.sigs
            /\ cycle' = [NoCycle EXCEPT !.pc = "exits", !.dry_run = dry_run,
                             !.all_exits = pr.sigs \o stale_exits \o ex.sigs]
            /\ NoOrderPlaced
            /\ UNCHANGED <<tripped_today, risk_vars, scorer_vars, kelly_vars,
                           brain_vars, ext_vars>>

\* one pass of the exit loop: the signal, what get_open_positions() showed
\* for its ticker, whether place_market_order was called and for how much
ExitLogged(sig, isopen, qty, ordered, sold) ==
    [ticker |-> sig.ticker, action |-> sig.action, open |-> isopen, qty |-> qty,
     ordered |-> ordered, sold |-> sold]

\* the exit loop, one signal of all_exits per step
ExitStep ==
    /\ cycle.pc = "exits"
    /\ Len(cycle.exit_log) < Len(cycle.all_exits)
    /\ LET sig == cycle.all_exits[Len(cycle.exit_log) + 1]
           t == sig.ticker
           snap == get_open_positions(TheFile)
           isopen == snap.recs[t].status = "OPEN"
           qty == snap.recs[t].quantity
           logged(ordered, sold) ==
               [cycle EXCEPT !.exit_log =
                                 Append(@, ExitLogged(sig, isopen, qty, ordered, sold))]
       IN  \/ /\ sig.action = "SELL" /\ qty > 0 /\ ~cycle.dry_run
              /\ \E res \in BrokerResults, hour \in CycleHours :
                    /\ Broker(res)
                    /\ IF res = "raise"
                       THEN UNCHANGED <<positions, pos_order, risk_state, realized_today, brain>>
                       ELSE LET c == close_position(TheFile, risk_state, t, sig.price)
                            IN  /\ brain' = learn_from_trade(brain,
                                       [ticker |-> t,
                                        pnl |-> (sig.price - snap.recs[t].entry_price) * qty,
                                        entry_factors |-> snap.recs[t].factors,
                                        regime |-> "normal", hour |-> hour])
                                /\ positions' = c.file.recs
                                /\ pos_order' = c.file.order
                                /\ risk_state' = c.state
                                /\ realized_today' = Realized(realized_today, c.pnl)
              /\ cycle' = logged(TRUE, qty)
           \/ /\ sig.action = "SELL" /\ (qty <= 0 \/ cycle.dry_run)
              /\ cycle' = logged(FALSE, 0)
              /\ NoOrderPlaced
              /\ UNCHANGED <<positions, pos_order, risk_state, realized_today, brain>>
           \/ /\ sig.action = "SELL_PARTIAL" /\ ~cycle.dry_run
              /\ \E res \in BrokerResults, qty_sell \in PartialQuantities(qty, sig.portion) :
                    /\ Broker(res)
                    /\ IF res = "raise" \/ ~isopen
                       THEN UNCHANGED <<positions, pos_order>>
                       ELSE /\ positions' = [snap.recs EXCEPT ![t].quantity = @ - qty_sell]
                            /\ pos_order' = snap.order
                    /\ cycle' = logged(TRUE, qty_sell)
              /\ UNCHANGED <<risk_state, realized_today, brain>>
           \/ /\ sig.action = "SELL_PARTIAL" /\ cycle.dry_run
              /\ cycle' = logged(FALSE, 0)
              /\ NoOrderPlaced
              /\ UNCHANGED <<positions, pos_order, risk_state, realized_today, brain>>
    /\ UNCHANGED <<today, risk_call, exit_scan, profit_exits, brain_call, cycles,
                   tripped_today, scorer_vars, kelly_vars, ext_vars>>

\* PHASE 2: the circuit-breaker gate, then filtering and ranking
RiskGate ==
    /\ cycle.pc = "exits"
    /\ Len(cycle.exit_log) = Len(cycle.all_exits)
    /\ LET state == DayRolled(risk_state, today)
           dynamic_risk == DynamicRiskValue(state)
       IN  /\ risk_state' = state
           /\ risk_call' = [called |-> TRUE, ret |-> dynamic_risk,
                            daily_pnl |-> state.daily_pnl,
                            wins |-> state.consecutive_wins,
                            losses |-> state.consecutive_losses]
           /\ IF dynamic_risk = 0
              THEN /\ cycle' = [cycle EXCEPT !.pc = "idle", !.gated = TRUE]
                   /\ tripped_today' = TRUE
              ELSE /\ \E ranked \in RankOrders :
                        LET todo == brain_filter_tickers(ranked, brain)
                        IN  cycle' = [cycle EXCEPT
                                !.pc = IF todo = <<>> THEN "idle" ELSE "entries",
                                !.todo = todo]
                   /\ UNCHANGED tripped_today
    /\ UNCHANGED <<today, realized_today, ledger_vars, scorer_vars, kelly_vars, brain_vars, cycles,
                   ext_vars>>
    /\ NoOrderPlaced

\* PHASE 5: one ticker of the ranked list
EntryStep ==
    /\ cycle.pc = "entries"
    /\ LET t == Head(cycle.todo)
           rest == Tail(cycle.todo)
           next == [cycle EXCEPT !.todo = rest,
                                 !.pc = IF rest = <<>> THEN "idle" ELSE "entries"]
           skip == /\ cycle' = next
                   /\ NoOrderPlaced
                   /\ UNCHANGED <<positions, pos_order, risk_state, realized_today>>
       IN  IF ~check_position_limits(TheFile, t) THEN skip
           ELSE \E d \in EntrySeries, mins \in CycleMinutes, hour \in CycleHours :
                LET signal == compute_momentum_score(d, mins)
                    confidence == EntryConfidence(brain, t, signal, hour)
                IN  IF signal.action = "buy"
                       /\ FracLE(Frac(confidence_threshold, 100), confidence)
                    THEN IF VolMean < min_avg_volume
                            \/ LatestAtr * 100 > max_atr_pct * LatestClose
                         THEN skip
                         ELSE \E qty \in BuyQuantities, res \in BrokerResults :
                              IF cycle.dry_run THEN skip
                              ELSE IF res # "id"
                              THEN /\ Broker(res)
                                   /\ cycle' = [next EXCEPT !.buys = @ \cup {t}]
                                   /\ UNCHANGED <<positions, pos_order, risk_state, realized_today>>
                              ELSE LET f == add_position(TheFile, t, qty, LatestClose,
                                                LatestAtr, signal.stop_loss,
                                                calculate_profit_target(LatestClose,
                                                                        LatestAtr, 10))
                                   IN  /\ Broker(res)
                                       /\ positions' = [f.recs EXCEPT
                                              ![t].factors = SubSeq(signal.factors, 1,
                                                                Min(6, Len(signal.factors)))]
                                       /\ pos_order' = f.order
                                       /\ cycle' = [next EXCEPT !.buys = @ \cup {t},
                                                                !.adds = @ \cup {t}]
                                       /\ UNCHANGED <<risk_state, realized_today>>
                    ELSE IF signal.action = "sell"
                            /\ positions[t].status = "OPEN"
                            /\ positions[t].quantity > 0
                            /\ ~cycle.dry_run
                    THEN \E res \in BrokerResults :
                         IF res = "raise"
                         THEN /\ Broker(res)
                              /\ cycle' = next
                              /\ UNCHANGED <<positions, pos_order, risk_state, realized_today>>
                         ELSE LET c == close_position(TheFile, risk_state, t, LatestClose)
                              IN  /\ Broker(res)
                                  /\ positions' = c.file.recs
                                  /\ pos_order' = c.file.order
                                  /\ risk_state' = c.state
                                  /\ realized_today' = Realized(realized_today, c.pnl)
                                  /\ cycle' = next
                    ELSE skip
    /\ UNCHANGED <<today, risk_call, exit_scan, profit_exits, cycles, tripped_today,
                   scorer_vars, kelly_vars, brain_vars, ext_vars>>

\* PHASE 5, the other way one ticker can go: _cached_download,
\* compute_indicators, compute_momentum_score or get_combined_intelligence
\* raises; none of them is inside a try, so the exception leaves
\* execute_live_trading with the rest of the ranked list unscanned
EntryRaises ==
    /\ cycle.pc = "entries"
    /\ check_position_limits(TheFile, Head(cycle.todo))
    /\ cycle' = [cycle EXCEPT !.pc = "idle", !.raised = TRUE]
    /\ NoOrderPlaced
    /\ UNCHANGED <<cycles, tripped_today, risk_vars, ledger_vars, scorer_vars,
                   kelly_vars, brain_vars, ext_vars>>

\* the calendar day changes between two cycles; every position held
\* overnight has then been held for more than max_hours
DayPasses ==
    /\ cycle.pc = "idle"
    /\ today < MaxDay
    /\ today' = today + 1
    /\ positions' = [t \in Tickers |->
           IF positions[t].status = "OPEN" THEN [positions[t] EXCEPT !.old = TRUE]
           ELSE positions[t]]
    /\ tripped_today' = FALSE
    /\ realized_today' = NewDay(realized_today)
    /\ UNCHANGED <<risk_state, risk_call, pos_order, exit_scan, profit_exits, cycle,
                   cycles, scorer_vars, kelly_vars, brain_vars, ext_vars>>
    /\ NoOrderPlaced

CycleNext ==
    CycleStart \/ ExitStep \/ RiskGate \/ EntryStep \/ EntryRaises \/ DayPasses

(***************************************************************************)
(* live_trader.py: brain_filter_tickers on a brain with a trading history  *)
(***************************************************************************)
\* the trades one ticker's memory is learned from: a number of winning and
\* of losing trades, the size of a loss (0.01 or 2.00), and which came last
HistoryWins == {0, 2, 3, 5, 6, 7}
HistoryLosses == {0, 4, 5, 8, 14, 18, 20}
HistoryLossPnls == {-10, -2000}
HistoryWinPnl == 1000
Histories ==
    [wins : HistoryWins, losses : HistoryLosses, loss_pnl : HistoryLossPnls,
     wins_last : BOOLEAN]

\* watchlists handed to the filter
FilterLists == {<<"AAPL">>, <<"TSLA", "AAPL">>}

RECURSIVE Replay(_, _, _)
Replay(b, n, pnl) ==
    IF n = 0 THEN b
    ELSE Replay(learn_from_trade(b, [ticker |-> "AAPL", pnl |-> pnl,
                                     entry_factors |-> <<>>, regime |-> "normal",
                                     hour |-> 10]),
                n - 1, pnl)

\* the brain after learn_from_trade has been called for every trade of h
BrainOf(h) ==
    IF h.wins_last
    THEN Replay(Replay(default_brain, h.losses, h.loss_pnl), h.wins, HistoryWinPnl)
    ELSE Replay(Replay(default_brain, h.wins, HistoryWinPnl), h.losses, h.loss_pnl)

NoFilterCall == [called |-> FALSE, tickers |-> <<>>, out |-> <<>>]

FilterIdle == filter_call = NoFilterCall

HistoryBrainInit ==
    /\ brain \in {BrainOf(h) : h \in Histories}
    /\ brain_call = NoBrainCall

BrainFilterTickers ==
    \E tickers \in FilterLists :
        /\ filter_call' = [called |-> TRUE, tickers |-> tickers,
                           out |-> brain_filter_tickers(tickers, brain)]
        /\ UNCHANGED <<risk_vars, ledger_vars, scorer_vars, kelly_vars, brain_vars,
                       cycle_vars, bot_vars, limit_file, io_vars, more_vars>>

(***************************************************************************)
(* Entry gating on a watchlist large enough to reach the limits: three     *)
(* TECH tickers, two AUTO tickers and four tickers outside the sector map. *)
(***************************************************************************)
\* the ranked watchlist; tickers enter the file in this order
LimitRank == <<"SPY", "QQQ", "IWM", "DIA", "TSLA", "RIVN", "AAPL", "MSFT", "NVDA">>
LimitTickers == SeqToSet(LimitRank)
\* closes at a loss and at a gain, for an entry at LatestClose
LimitClosePrices == {3900, 4100}

LimitInit == limit_file = File([t \in LimitTickers |-> NoPos], <<>>)

\* one ticker of PHASE 5 that passes the gate and is bought
GatedEntry ==
    \E i \in 1..Len(LimitRank), qty \in {10} :
        LET t == LimitRank[i]
        IN  /\ i <= Len(limit_file.order) + 1
            /\ check_position_limits(limit_file, t)
            /\ limit_file' = add_position(limit_file, t, qty, LatestClose, LatestAtr, 0, 0)
            /\ UNCHANGED <<risk_vars, ledger_vars, scorer_vars, kelly_vars, brain_vars,
                           cycle_vars, bot_vars, filter_call, io_vars, more_vars>>

\* an exit of an OPEN position
LimitClose ==
    \E t \in LimitTickers, close_price \in LimitClosePrices :
        LET c == close_position(limit_file, risk_state, t, close_price)
        IN  /\ limit_file.recs[t].status = "OPEN"
            /\ WithinRiskBounds(c.state)
            /\ limit_file' = c.file
            /\ risk_state' = c.state
            /\ realized_today' = Realized(realized_today, c.pnl)
            /\ UNCHANGED <<today, risk_call>>
            /\ UNCHANGED <<ledger_vars, scorer_vars, kelly_vars, brain_vars,
                           cycle_vars, bot_vars, filter_call, io_vars, more_vars>>

LimitNext == GatedEntry \/ LimitClose

(***************************************************************************)
(* bot.py: idempotency keys and place_market_order; risk.py: the daily     *)
(* loss guard.  Quantities are in tenths of a share, losses in currency    *)
(* units.  An unset optional argument or environment variable is <<>>, a   *)
(* set one is <<value>>.                                                   *)
(***************************************************************************)
\* keys uuid.uuid4() may produce in a behaviour of the model
MaxKeys == 3
\* largest daily_loss accumulated in the model
MaxLoss == 30

\* TRADING212_MAX_ORDER_QUANTITY, 100.0
MAX_ORDER_QUANTITY == 1000

OrderTickers == {"AAPL"}
\* 5.0 and 5.1 shares, and a sale above the order limit
OrderQuantities == {50, 51, -1001}
\* the mode argument and TRADING212_MODE: unset, the three documented modes,
\* and another string
ArgModes == {<<>>, <<"mock">>, <<"demo">>, <<"live">>, <<"paper">>}
EnvModes == {<<>>, <<"paper">>}
\* TRADING212_MAX_DAILY_LOSS
MaxDailyLossEnv == {<<>>, <<10>>}
ClientOrderIds == {<<>>, <<900>>}
LossAmounts == {15}
\* what the broker answers to a request: 200 with an id, 200 without an id,
\* anything else (timeout, network error, other status, unparsable body)
BrokerResponses == {"id", "noid", "error"}

\* _fingerprint: sha256 of "ticker:quantity", taken as injective
Fingerprint(ticker, quantity) == <<ticker, quantity>>

Fingerprints == {Fingerprint(t, q) : t \in OrderTickers, q \in OrderQuantities}

\* _ensure_client_order_id: the stored key if the fingerprint is in the
\* store, else a new uuid4, written to the store file only with persist
ensure_client_order_id(store, uuid, ticker, quantity, persist) ==
    LET fp == Fingerprint(ticker, quantity)
    IN  IF store[fp] # 0
        THEN [key |-> store[fp], store |-> store, uuid |-> uuid]
        ELSE [key |-> uuid + 1,
              store |-> IF persist THEN [store EXCEPT ![fp] = uuid + 1] ELSE store,
              uuid |-> uuid + 1]

\* risk.check_daily_loss_allowed
check_daily_loss_allowed(max_daily_loss, loss) ==
    IF max_daily_loss = <<>> THEN TRUE ELSE loss < max_daily_loss[1]

\* (mode or os.getenv("TRADING212_MODE") or "live")
ResolvedMode(mode, env_mode) ==
    IF mode # <<>> THEN mode[1] ELSE IF env_mode # <<>> THEN env_mode[1] ELSE "live"

Abs(n) == IF n < 0 THEN -n ELSE n

\* place_market_order up to the broker's answer
place_market_order(a, store, uuid, loss, response) ==
    LET resolved == ResolvedMode(a.mode, a.env_mode)
        none == [sent |-> FALSE, key |-> 0, store |-> store, uuid |-> uuid]
        ens == ensure_client_order_id(store, uuid, a.ticker, a.quantity, FALSE)
        key == IF a.client_order_id # <<>> THEN a.client_order_id[1] ELSE ens.key
        sent == [sent |-> TRUE, key |-> key,
                 store |-> IF a.client_order_id # <<>> THEN store ELSE ens.store,
                 uuid |-> IF a.client_order_id # <<>> THEN uuid ELSE ens.uuid]
    IN  IF Abs(a.quantity) > MAX_ORDER_QUANTITY
        THEN none @@ [outcome |-> "ValueError"]
        ELSE IF ~check_daily_loss_allowed(a.max_daily_loss, loss)
        THEN none @@ [outcome |-> "RuntimeError: daily loss"]
        ELSE IF resolved = "mock" \/ a.use_mock
        THEN none @@ [outcome |-> "mock order"]
        ELSE IF resolved = "demo"
        THEN none @@ [outcome |-> "demo order"]
        ELSE IF resolved = "live" /\ ~a.confirm /\ ~a.auto_confirm
        THEN none @@ [outcome |-> "RuntimeError: confirmation"]
        ELSE sent @@ [outcome |-> CASE response = "id" -> "order"
                                    [] response = "noid" -> "RuntimeError: missing id"
                                    [] OTHER -> "RuntimeError: request failed"]

NoOrderCall ==
    [called |-> FALSE, loss |-> 0, sent |-> FALSE, key |-> 0, outcome |-> ""]

OrderArgs ==
    [ticker : OrderTickers, quantity : OrderQuantities, mode : ArgModes,
     env_mode : EnvModes, use_mock : BOOLEAN, confirm : BOOLEAN,
     auto_confirm : BOOLEAN, max_daily_loss : MaxDailyLossEnv,
     client_order_id : ClientOrderIds]

\* the call execute_live_trading makes: place_market_order(ticker_212, qty,
\* confirm=True) with no mode configured
LiveCall ==
    [ticker |-> "AAPL", quantity |-> 50, mode |-> <<>>, env_mode |-> <<>>,
     use_mock |-> FALSE, confirm |-> TRUE, auto_confirm |-> FALSE,
     max_daily_loss |-> <<>>, client_order_id |-> <<>>]

KeyUse(ticker, quantity, key) == [ticker |-> ticker, quantity |-> quantity, key |-> key]

BotIdle ==
    /\ idem_store = [fp \in Fingerprints |-> 0]
    /\ next_uuid = 0
    /\ key_log = {}
    /\ daily_loss = 0
    /\ order_args = LiveCall
    /\ order_call = NoOrderCall

\* any caller of place_market_order, in any environment
OrderInit ==
    /\ idem_store = [fp \in Fingerprints |-> 0]
    /\ next_uuid = 0
    /\ key_log = {}
    /\ daily_loss = 0
    /\ order_args \in OrderArgs
    /\ order_call = NoOrderCall

EnsureClientOrderId ==
    \E ticker \in OrderTickers, quantity \in OrderQuantities, persist \in BOOLEAN :
        LET r == ensure_client_order_id(idem_store, next_uuid, ticker, quantity, persist)
        IN  /\ r.uuid <= MaxKeys
            /\ idem_store' = r.store
            /\ next_uuid' = r.uuid
            /\ key_log' = key_log \cup {KeyUse(ticker, quantity, r.key)}
            /\ UNCHANGED <<daily_loss, order_args, order_call>>
            /\ UNCHANGED <<risk_vars, ledger_vars, scorer_vars, kelly_vars, brain_vars,
                           cycle_vars, filter_call, limit_file, io_vars, more_vars>>

PlaceMarketOrder ==
    \E response \in BrokerResponses :
        LET a == order_args
            r == place_market_order(a, idem_store, next_uuid, daily_loss, response)
        IN  /\ r.uuid <= MaxKeys
            /\ idem_store' = r.store
            /\ next_uuid' = r.uuid
            /\ key_log' = IF r.sent
                          THEN key_log \cup {KeyUse(a.ticker, a.quantity, r.key)}
                          ELSE key_log
            /\ order_call' = [called |-> TRUE, loss |-> daily_loss, sent |-> r.sent,
                              key |-> r.key, outcome |-> r.outcome]
            /\ UNCHANGED <<daily_loss, order_args>>
            /\ UNCHANGED <<risk_vars, ledger_vars, scorer_vars, kelly_vars, brain_vars,
                           cycle_vars, filter_call, limit_file, io_vars, more_vars>>

\* risk.add_realized_loss
AddRealizedLoss ==
    \E amt \in LossAmounts :
        /\ daily_loss + amt <= MaxLoss
        /\ daily_loss' = daily_loss + amt
        /\ UNCHANGED <<idem_store, next_uuid, key_log, order_args, order_call>>
        /\ UNCHANGED <<risk_vars, ledger_vars, scorer_vars, kelly_vars, brain_vars,
                       cycle_vars, filter_call, limit_file, io_vars, more_vars>>

\* risk.reset_daily_loss
ResetDailyLoss ==
    /\ daily_loss' = 0
    /\ UNCHANGED <<idem_store, next_uuid, key_log, order_args, order_call>>
    /\ UNCHANGED <<risk_vars, ledger_vars, scorer_vars, kelly_vars, brain_vars,
                   cycle_vars, filter_call, limit_file, io_vars, more_vars>>

BotNext == EnsureClientOrderId \/ PlaceMarketOrder

OrderNext == PlaceMarketOrder \/ AddRealizedLoss \/ ResetDailyLoss

(***************************************************************************)
(* Persistence: smartbot_brain.json, open_positions.json and risk_state.json *)
(* are each rewritten in place by open(path, "w") followed by json.dump    *)
(***************************************************************************)
MaxSaves == 2

PersistFiles == {"smartbot_brain", "open_positions", "risk_state"}

\* a file holds a complete record (its version counts the saves that led
\* to it), or what an interrupted save left of it, or does not exist
MissingFile == [written |-> "missing", version |-> 0]

TruncatedFile == [written |-> "partial", version |-> 0]

CompleteFile(v) == [written |-> "complete", version |-> v]

\* SmartBotBrain._load: the number of trades in the brain it returns; a
\* missing file and a file json.load cannot parse both give _default_brain()
brain_load(file) == IF file.written = "complete" THEN file.version ELSE 0

\* load_positions / load_risk_state: json.load is not guarded
json_load(file) ==
    IF file.written = "partial" THEN [raised |-> TRUE, version |-> 0]
    ELSE [raised |-> FALSE, version |-> file.version]

Stopped == [running |-> FALSE, brain |-> 0, saving |-> "none", pending |-> 0]

IoIdle ==
    /\ disk = [f \in PersistFiles |-> MissingFile]
    /\ proc = Stopped
    /\ brain_saved = 0

\* a cycle begins: SmartBotBrain() reads the brain file
ProcessStart ==
    /\ ~proc.running
    /\ proc' = [Stopped EXCEPT !.running = TRUE,
                               !.brain = brain_load(disk["smartbot_brain"])]
    /\ UNCHANGED <<disk, brain_saved, wait>>
    /\ UNCHANGED <<risk_vars, ledger_vars, scorer_vars, kelly_vars, brain_vars,
                   cycle_vars, bot_vars, filter_call, limit_file, more_vars>>

\* learn_from_trade up to the point where save() has opened the file for
\* writing: the memory holds one more trade and the file is truncated
LearnFromTradeBegin ==
    /\ proc.running /\ proc.saving = "none"
    /\ proc.brain < MaxSaves
    /\ proc' = [proc EXCEPT !.brain = @ + 1, !.saving = "smartbot_brain",
                            !.pending = proc.brain + 1]
    /\ disk' = [disk EXCEPT !["smartbot_brain"] = TruncatedFile]
    /\ UNCHANGED <<brain_saved, wait>>
    /\ UNCHANGED <<risk_vars, ledger_vars, scorer_vars, kelly_vars, brain_vars,
                   cycle_vars, bot_vars, filter_call, limit_file, more_vars>>

\* a method of AdvancedRiskManager that loads a file, changes the record and
\* saves it, up to the point where the save has opened the file for writing
LedgerWriteBegin ==
    \E f \in {"open_positions", "risk_state"} :
        LET l == json_load(disk[f])
        IN  /\ proc.running /\ proc.saving = "none"
            /\ IF l.raised
               THEN /\ proc' = Stopped
                    /\ UNCHANGED disk
               ELSE /\ l.version < MaxSaves
                    /\ proc' = [proc EXCEPT !.saving = f, !.pending = l.version + 1]
                    /\ disk' = [disk EXCEPT ![f] = TruncatedFile]
            /\ UNCHANGED <<brain_saved, wait>>
            /\ UNCHANGED <<risk_vars, ledger_vars, scorer_vars, kelly_vars, brain_vars,
                           cycle_vars, bot_vars, filter_call, limit_file, more_vars>>

\* json.dump has written the whole record and the file is closed
SaveFinish ==
    /\ proc.saving # "none"
    /\ disk' = [disk EXCEPT ![proc.saving] = CompleteFile(proc.pending)]
    /\ brain_saved' = IF proc.saving = "smartbot_brain" THEN proc.pending
                      ELSE brain_saved
    /\ proc' = [proc EXCEPT !.saving = "none", !.pending = 0]
    /\ UNCHANGED wait
    /\ UNCHANGED <<risk_vars, ledger_vars, scorer_vars, kelly_vars, brain_vars,
                   cycle_vars, bot_vars, filter_call, limit_file, more_vars>>

\* the process is killed, or the machine goes down, at any point
ProcessStops ==
    /\ proc.running
    /\ proc' = Stopped
    /\ UNCHANGED <<disk, brain_saved, wait>>
    /\ UNCHANGED <<risk_vars, ledger_vars, scorer_vars, kelly_vars, brain_vars,
                   cycle_vars, bot_vars, filter_call, limit_file, more_vars>>

PersistNext ==
    ProcessStart \/ LearnFromTradeBegin \/ LedgerWriteBegin \/ SaveFinish
        \/ ProcessStops

(***************************************************************************)
(* bot.py: wait_for_order_status, and place_market_order(wait_for_fill)    *)
(* around it.  Time is in seconds.                                         *)
(***************************************************************************)
WaitTimeouts == {0, 5, 16}

PollIntervals == {1, 2}

MaxBackoffs == {2, 8}

\* what one get_order(order_id) gives: an order with a status, or an exception
PollResults == {"pending", "filled", "raise"}

\* seconds one get_order call takes
PollDurations == {0, 1}

target_statuses == {"filled"}

\* the status the loop sees: a failed poll counts as {"status": "unknown"}
PolledStatus(r) == IF r = "raise" THEN "unknown" ELSE r

SleepForUncapped(poll_interval, attempt, max_backoff) == poll_interval * (2 ^ attempt)

sleep_for(poll_interval, attempt, max_backoff) ==
    Min(poll_interval * (2 ^ attempt), max_backoff)

NoWait ==
    [pc |-> "idle", timeout |-> 0, poll_interval |-> 0, max_backoff |-> 0,
     elapsed |-> 0, attempt |-> 0, status |-> "", checked |-> 0, slept |-> 0,
     result |-> "none", fill |-> "none"]

WaitIdle == wait = NoWait

\* place_market_order has its order_resp and calls
\* wait_for_order_status(order_resp["id"], timeout=wait_timeout)
WaitCall ==
    \E timeout \in WaitTimeouts, poll_interval \in PollIntervals,
       max_backoff \in MaxBackoffs :
        /\ wait.pc = "idle"
        /\ wait' = [NoWait EXCEPT !.pc = "poll", !.timeout = timeout,
                                  !.poll_interval = poll_interval,
                                  !.max_backoff = max_backoff]
        /\ UNCHANGED <<disk, proc, brain_saved>>
        /\ UNCHANGED <<risk_vars, ledger_vars, scorer_vars, kelly_vars, brain_vars,
                       cycle_vars, bot_vars, filter_call, limit_file, more_vars>>

\* one turn of the loop: the poll, the two tests, the sleep
WaitPoll ==
    \E r \in PollResults, took \in PollDurations :
        LET status == PolledStatus(r)
            now == wait.elapsed + took
            s == sleep_for(wait.poll_interval, wait.attempt, wait.max_backoff)
        IN  /\ wait.pc = "poll"
            /\ wait' =
                 IF status \in target_statuses
                 THEN [wait EXCEPT !.pc = "returned", !.status = status,
                                   !.elapsed = now, !.checked = now,
                                   !.result = "order"]
                 ELSE IF now > wait.timeout
                 THEN [wait EXCEPT !.pc = "raised", !.status = status,
                                   !.elapsed = now, !.checked = now,
                                   !.result = "TimeoutError"]
                 ELSE [wait EXCEPT !.status = status, !.checked = now,
                                   !.slept = s, !.elapsed = now + s,
                                   !.attempt = @ + 1]
            /\ UNCHANGED <<disk, proc, brain_saved>>
            /\ UNCHANGED <<risk_vars, ledger_vars, scorer_vars, kelly_vars, brain_vars,
                           cycle_vars, bot_vars, filter_call, limit_file, more_vars>>

\* place_market_order returns: the polled order, or order_resp when
\* wait_for_order_status raised
WaitReturn ==
    /\ wait.pc \in {"returned", "raised"}
    /\ wait' = [wait EXCEPT !.pc = "done",
                            !.fill = IF wait.pc = "returned" THEN "polled order"
                                     ELSE "order_resp"]
    /\ UNCHANGED <<disk, proc, brain_saved>>
    /\ UNCHANGED <<risk_vars, ledger_vars, scorer_vars, kelly_vars, brain_vars,
                   cycle_vars, bot_vars, filter_call, limit_file, more_vars>>

WaitNext == WaitCall \/ WaitPoll \/ WaitReturn

(***************************************************************************)
(* live_trader.py: the buy branch of the scan loop up to the order, i.e.   *)
(* guardrails and position sizing.  Cash, prices and atr are in cents,     *)
(* quantities in tenths of a share, confidence and the two AI multipliers  *)
(* in hundredths, kelly_f and the risk fraction in basis points, average   *)
(* volume in thousands of shares.                                          *)
(***************************************************************************)
min_qty == 2
min_order_value == 500

SizingFreeCash == {500, 900, 5000, 100000}
SizingTotalCash == {10000, 100000}
SizingKelly == {250, 2250}
SizingConfidences == {30, 40, 70, 100}
SizingPrices == {300, 1000, 4500}
\* atr as a percentage of the price
SizingAtrPcts == {2, 6}
SizingVolumes == {100, 900}
SizingMultipliers == {80, 100}
\* what get_dynamic_risk returned before the scan: after a loss streak, the
\* base risk, after a win streak
SizingRisks == {600, 1200, 2800}

RECURSIVE Gcd(_, _)
Gcd(a, b) == IF b = 0 THEN a ELSE Gcd(b, a % b)

\* the same number in lowest terms
Lowest(x) == LET g == Gcd(x.num, x.den) IN IF g = 0 THEN x ELSE Frac(x.num \div g, x.den \div g)

Times(x, y) ==
    LET u == Lowest(Frac(x.num, y.den))
        v == Lowest(Frac(y.num, x.den))
    IN  Lowest(Frac(u.num * v.num, u.den * v.den))

\* sm = 0.6 + conf_norm * 0.8, times the regime and volatility multipliers,
\* kept inside [0.5, 1.5]; as a fraction
SizeMultiplier(confidence, regime_mult, vol_mult) ==
    LET conf_floor == Max(confidence_threshold, 40)
        span == 100 - conf_floor
        conf_norm == Min(span, Max(0, confidence - conf_floor))
        sm == Times(Times(Lowest(Frac(6 * span + 8 * conf_norm, 10 * span)),
                          Lowest(Frac(regime_mult, 100))),
                    Lowest(Frac(vol_mult, 100)))
    IN  IF FracLE(sm, Frac(1, 2)) THEN Frac(1, 2)
        ELSE IF FracLE(Frac(3, 2), sm) THEN Frac(3, 2)
        ELSE sm

SizingSkip(why) == [action |-> "skip", qty |-> 0, reduced |-> FALSE, why |-> why]

\* the quantity the buy branch submits for arguments a, or the reason it
\* goes on to the next ticker
buy_sizing(a) ==
    LET sm == SizeMultiplier(a.confidence, a.regime_mult, a.vol_mult)
        tight == 10 * a.free_cash < a.total_cash
        \* max_amt in cents, as a fraction
        max_amt == IF tight THEN Times(Lowest(Frac(95 * a.free_cash, 100)), sm)
                   ELSE Times(Times(Frac(a.total_cash, 1),
                                    Lowest(Frac(a.kelly_f, 10000))), sm)
        by_amt == Times(max_amt, Frac(1, a.price))
        by_cash == Lowest(Frac(95 * a.free_cash, 100 * a.price))
        least == IF FracLE(by_amt, by_cash) THEN by_amt ELSE by_cash
        fractional == a.free_cash < 1000
        qty == IF fractional THEN RoundDiv(10 * least.num, least.den)
               ELSE 10 * Min(Max(1, RoundDiv(by_amt.num, by_amt.den)), 100)
        whole == 10 * (a.free_cash \div a.price)
    IN  IF a.confidence < confidence_threshold THEN SizingSkip("confidence")
        ELSE IF a.avg_vol < min_avg_volume THEN SizingSkip("liquidity")
        ELSE IF a.atr * 100 > max_atr_pct * a.price THEN SizingSkip("atr")
        ELSE IF fractional /\ (qty < 1 \/ qty * a.price < 100)
        THEN SizingSkip("too small")
        ELSE IF qty < min_qty THEN SizingSkip("min_qty")
        ELSE IF qty * a.price < 10 * min_order_value THEN SizingSkip("min_order_value")
        ELSE IF qty * a.price > 10 * a.free_cash
        THEN IF whole * a.price > 10 * a.free_cash \/ whole < min_qty
             THEN SizingSkip("can't afford")
             ELSE [action |-> "buy", qty |-> whole, reduced |-> TRUE, why |-> ""]
        ELSE [action |-> "buy", qty |-> qty, reduced |-> FALSE, why |-> ""]

SizingInputs ==
    [confidence : SizingConfidences, free_cash : SizingFreeCash,
     total_cash : SizingTotalCash, kelly_f : SizingKelly,
     regime_mult : SizingMultipliers, vol_mult : SizingMultipliers,
     price : SizingPrices, atr_pct : SizingAtrPcts, avg_vol : SizingVolumes,
     dynamic_risk : SizingRisks]

\* the arguments with atr in cents
SizingArgs(i) == [i EXCEPT !.atr_pct = 0] @@ [atr |-> (i.atr_pct * i.price) \div 100]

NoSizing ==
    [called |-> FALSE,
     args |-> SizingArgs([confidence |-> 0, free_cash |-> 0, total_cash |-> 0,
                          kelly_f |-> 0, regime_mult |-> 100, vol_mult |-> 100,
                          price |-> 100, atr_pct |-> 0, avg_vol |-> 0,
                          dynamic_risk |-> 0]),
     out |-> SizingSkip("")]

SizingIdle == sizing = NoSizing /\ risk_per_trade = base_risk

SizingInit ==
    /\ \E i \in SizingInputs : sizing = [NoSizing EXCEPT !.args = SizingArgs(i)]
    /\ risk_per_trade = base_risk

\* a buy signal reaches the sizing block
SizeBuy ==
    /\ ~sizing.called
    /\ sizing' = [sizing EXCEPT !.called = TRUE, !.out = buy_sizing(sizing.args)]
    /\ UNCHANGED <<risk_vars, ledger_vars, scorer_vars, kelly_vars, brain_vars,
                   cycle_vars, bot_vars, filter_call, limit_file, io_vars,
                   risk_per_trade>>

ExtIdle == BotIdle /\ FilterIdle /\ LimitInit /\ IoIdle /\ WaitIdle /\ SizingIdle

vars == <<today, risk_state, risk_call, realized_today, positions, pos_order, exit_scan, profit_exits,
          df, score_calls, kelly_in, kelly_out, brain, brain_call,
          cycle, cycles, tripped_today, failures, last_order,
          idem_store, next_uuid, key_log, daily_loss, order_args, order_call,
          filter_call, limit_file, disk, proc, brain_saved, wait, sizing, risk_per_trade>>

RiskNext == GetDynamicRisk \/ UpdateTradeResult \/ NextDay

Init ==
    RiskInit /\ LedgerInit /\ ScorerIdle /\ KellyIdle /\ BrainInit /\ CycleInit /\ ExtIdle

SpecRisk == Init /\ [][RiskNext]_vars

InitConfig ==
    /\ ConfigInit /\ realized_today = NotAudited /\ sizing = NoSizing
    /\ LedgerInit /\ ScorerIdle /\ KellyIdle /\ BrainInit /\ CycleInit
    /\ BotIdle /\ FilterIdle /\ LimitInit /\ IoIdle /\ WaitIdle

SpecConfig == InitConfig /\ [][GetDynamicRisk]_vars

InitClose ==
    RiskInit /\ CloseInit /\ ScorerIdle /\ KellyIdle /\ BrainInit /\ CycleInit /\ ExtIdle

SpecClose == InitClose /\ [][ClosePosition]_vars

SpecLedger == Init /\ [][LedgerNext]_vars

InitIntraday ==
    RiskInit /\ IntradayInit /\ ScorerIdle /\ KellyIdle /\ BrainInit /\ CycleInit /\ ExtIdle

SpecIntraday == InitIntraday /\ [][CheckIntradayProfits]_vars

InitScorer ==
    RiskInit /\ LedgerInit /\ ScorerInit /\ KellyIdle /\ BrainInit /\ CycleInit /\ ExtIdle

SpecScorer == InitScorer /\ [][ComputeMomentumScore]_vars

InitKelly ==
    RiskInit /\ LedgerInit /\ ScorerIdle /\ KellyInit /\ BrainInit /\ CycleInit /\ ExtIdle

SpecKelly == InitKelly /\ [][KellyFraction]_vars

InitCycle ==
    RiskAudited /\ LedgerStart /\ ScorerIdle /\ KellyIdle /\ BrainInit /\ CycleInit /\ ExtIdle

Spec == InitCycle /\ [][CycleNext]_vars

SpecBrain == Init /\ [][BrainNext]_vars

SpecBot == Init /\ [][BotNext]_vars

SpecLimits == Init /\ [][LimitNext]_vars

SpecPersist == Init /\ [][PersistNext]_vars

\* the thread that runs place_market_order keeps running: every get_order
\* and every time.sleep comes back
SpecWait == Init /\ [][WaitNext]_vars /\ WF_vars(WaitNext)

InitFilter ==
    RiskInit /\ LedgerInit /\ ScorerIdle /\ KellyIdle /\ HistoryBrainInit /\ CycleInit
        /\ ExtIdle

SpecFilter == InitFilter /\ [][BrainFilterTickers]_vars

InitSizing ==
    RiskInit /\ LedgerInit /\ ScorerIdle /\ KellyIdle /\ BrainInit /\ CycleInit /\ BotIdle
        /\ FilterIdle /\ LimitInit /\ IoIdle /\ WaitIdle /\ SizingInit

SpecSizing == InitSizing /\ [][SizeBuy]_vars

InitOrder ==
    RiskInit /\ LedgerInit /\ ScorerIdle /\ KellyIdle /\ BrainInit /\ CycleInit /\ OrderInit
        /\ FilterIdle /\ LimitInit /\ IoIdle /\ WaitIdle /\ SizingIdle

SpecOrder == InitOrder /\ [][OrderNext]_vars

\* C1: whenever the daily_pnl that get_dynamic_risk() evaluated is at or below
\* -max_daily_loss_pct, the value it returned is exactly 0, whatever the
\* win and loss streaks are.
C1_CircuitBreakerZero ==
    (risk_call.called /\ risk_call.daily_pnl <= -max_daily_loss_pct)
        => risk_call.ret = 0

\* a call that evaluated a daily loss exactly at the limit, after a streak
C1_Witness ==
    /\ risk_call.called
    /\ risk_call.daily_pnl = -max_daily_loss_pct
    /\ risk_call.losses >= 2
    /\ risk_call.ret = 0


\* C2: once the circuit breaker has tripped on a calendar day, no later cycle
\* of that day hands a buy order to the broker or adds a position, whatever
\* positions are closed in between.
C2_NoEntryAfterTrip ==
    tripped_today => (cycle.buys = {} /\ cycle.adds = {})

\* C3: a live cycle in which get_dynamic_risk() returned 0 has bought nothing
\* and added no position, and before it returned the exit loop has handed a
\* sell order to the broker for every signal of the combined exit list whose
\* position was still OPEN at its turn.
C3_ExitsBeforeGate ==
    (cycle.gated /\ ~cycle.dry_run)
        => /\ cycle.buys = {}
           /\ cycle.adds = {}
           /\ Len(cycle.exit_log) = Len(cycle.all_exits)
           /\ \A i \in 1..Len(cycle.exit_log) :
                  cycle.exit_log[i].open => cycle.exit_log[i].ordered

\* C4: every update_position(price) call, whatever the price, leaves stop_loss
\* at or above the value it had before the call (the stop never loosens).
C4_StopNeverLoosens ==
    [][\A t \in Tickers, p \in Prices :
          UpdatePosition(t, p) => positions'[t].stop_loss >= positions[t].stop_loss]_vars

StopLossEmitted(t) ==
    \E i \in 1..Len(exit_scan.sigs) :
        exit_scan.sigs[i].ticker = t /\ exit_scan.sigs[i].reason = "STOP_LOSS"

\* C6: for a position entered at 50.00 with atr 1.0, check_exit_signals emits
\* the stop-loss exit exactly when the price it reads is <= 48.0 (so not at
\* 48.5, also after the price has been at 50.6), and check_intraday_profits
\* emits no exit at 48.5.
C6_ScenarioD ==
    \A t \in Tickers :
        (positions[t].status = "OPEN" /\ positions[t].entry_price = 500
            /\ positions[t].atr = 10)
        => /\ exit_scan.price[t] # 0
                => (StopLossEmitted(t) <=> exit_scan.price[t] <= 480)
           /\ \A i \in 1..Len(profit_exits) :
                profit_exits[i].ticker = t => profit_exits[i].price # 485

\* C7: two calls of compute_momentum_score on the identical series return the
\* identical score, action, confidence, stop_loss and factors, whenever the
\* calls are made.
C7_Deterministic ==
    Len(score_calls) = 2 => score_calls[1].out = score_calls[2].out

\* C8: for every valid indicator input the returned score is in [0,100] and
\* the returned confidence in [0,1].
C8_ScoreBounded ==
    \A i \in 1..Len(score_calls) :
        /\ score_calls[i].out.score >= 0
        /\ score_calls[i].out.score <= 100
        /\ score_calls[i].out.confidence >= 0
        /\ score_calls[i].out.confidence <= 100

\* a call on which the penalties outweigh the bonuses: the sum is negative
C8_Witness ==
    /\ Len(score_calls) >= 1
    /\ df.enough
    /\ RawScore(df, score_calls[1].mins).score < 0
    /\ score_calls[1].out.score = 0

\* C9: kelly_fraction returns a value in [0.025, 0.225] for all inputs; with
\* avg_win = 0 or avg_loss = 0 it returns a constant inside that band.
C9_KellyBand ==
    kelly_out # Frac(0, 1)
        => /\ FracLE(Frac(1, 40), kelly_out)
           /\ FracLE(kelly_out, Frac(9, 40))

\* a call whose unclamped Kelly value lies above the band, and one with a
\* zero average
C9_Witness ==
    /\ kelly_out = Frac(9, 40)
    /\ kelly_in.win_rate = 100
    /\ kelly_in.avg_loss # 0

\* C10: the multiplier returned by get_combined_intelligence is within
\* [0.5, 1.5] whatever per-ticker, per-factor, per-regime and per-hour records
\* the brain holds.
C10_CombinedBounded ==
    brain_call.called
        => /\ brain_call.confidence_mult >= 500
           /\ brain_call.confidence_mult <= 1500

\* a query whose four multipliers multiply to less than 0.5
C10_Witness ==
    /\ brain_call.called
    /\ brain_call.confidence_mult = 500
    /\ LET c == CombinedProduct(brain, brain_call.ticker, brain_call.factors,
                               brain_call.regime, brain_call.hour)
       IN  c.num < 500 * c.den

\* C11: the idempotency key is a function of (ticker, quantity): every key
\* handed out by _ensure_client_order_id or sent by place_market_order for the
\* same ticker and quantity is the same key, and keys for different
\* quantities differ.
C11_StableKey ==
    \A a \in key_log, b \in key_log :
        (a.ticker = b.ticker /\ a.quantity = b.quantity) <=> a.key = b.key

\* C19: place_market_order sends a request to the broker only if the quantity
\* is within MAX_ORDER_QUANTITY, the daily loss is below the configured
\* maximum, the mode resolves to live and confirm or auto-confirm is set; an
\* oversized quantity is a ValueError in every mode and an exceeded daily loss
\* a RuntimeError.
C19_GatedRequest ==
    order_call.called =>
        LET a == order_args
        IN  /\ order_call.sent =>
                /\ Abs(a.quantity) <= MAX_ORDER_QUANTITY
                /\ check_daily_loss_allowed(a.max_daily_loss, order_call.loss)
                /\ ResolvedMode(a.mode, a.env_mode) = "live"
                /\ ~a.use_mock
                /\ a.confirm \/ a.auto_confirm
            /\ Abs(a.quantity) > MAX_ORDER_QUANTITY => order_call.outcome = "ValueError"
            /\ (Abs(a.quantity) <= MAX_ORDER_QUANTITY
                   /\ ~check_daily_loss_allowed(a.max_daily_loss, order_call.loss))
               => order_call.outcome = "RuntimeError: daily loss"

\* C12: brain_filter_tickers removes a ticker if and only if its memory shows
\* at least 10 trades with a win rate below 28%, or at least 20 trades with a
\* win rate below 35%, or a lose streak of at least 5; every other ticker is
\* kept.
C12_BlockedIff ==
    filter_call.called =>
        \A t \in SeqToSet(filter_call.tickers) :
            LET tm == brain.ticker_memory[t]
                removed == t \notin SeqToSet(filter_call.out)
            IN  removed <=>
                    \/ tm.total_trades >= 10 /\ 100 * tm.wins < 28 * tm.total_trades
                    \/ tm.total_trades >= 20 /\ 100 * tm.wins < 35 * tm.total_trades
                    \/ tm.lose_streak >= 5

\* C13: after any sequence of cycles every ledger entry with status OPEN has
\* a quantity above 0; in particular a partial sell does not leave an OPEN
\* entry with quantity 0 or less.
C13_OpenHasQuantity ==
    \A t \in Tickers : positions[t].status = "OPEN" => positions[t].quantity > 0

\* C14: with every entry gated by check_position_limits, the number of OPEN
\* positions never exceeds max_positions and no sector of the sector map has
\* more than 2 OPEN positions.
C14_LimitsHold ==
    LET open == {t \in LimitTickers : limit_file.recs[t].status = "OPEN"}
    IN  /\ Cardinality(open) <= max_positions
        /\ \A sec \in DOMAIN sectors : Cardinality(open \cap sectors[sec]) <= 2

\* the position limit is reached, two TECH positions are open, and a closed
\* position is on file
C14_Witness ==
    LET open == {t \in LimitTickers : limit_file.recs[t].status = "OPEN"}
    IN  /\ Cardinality(open) = max_positions
        /\ Cardinality(open \cap sectors["TECH"]) = 2
        /\ \E t \in LimitTickers : limit_file.recs[t].status = "CLOSED"

\* C15: once a trade has been closed on the current calendar day, daily_pnl
\* is exactly the sum of the P&L realized on that day: an earlier day's P&L
\* is not in it and nothing realized today has been reset away.
C15_DailyPnlIsTodays ==
    realized_today.traded => risk_state.daily_pnl = realized_today.pnl

\* C16: every step of the orchestrator that closes a position (its ledger
\* entry goes from OPEN to CLOSED) reports that trade to learn_from_trade
\* exactly once: the brain has learned exactly one more trade after the step.
C16_ClosedIsLearnedOnce ==
    [][\A t \in Tickers :
          (positions[t].status = "OPEN" /\ positions'[t].status = "CLOSED")
              => brain'.total_trades_learned = brain.total_trades_learned + 1]_vars

\* C17: whenever the process is stopped, each of the three files is either
\* absent or a complete record (never what an interrupted save left), and a
\* running process never holds a brain with fewer trades than the brain
\* that was last written out completely.
C17_AtomicOverwrite ==
    /\ ~proc.running => \A f \in PersistFiles : disk[f].written # "partial"
    /\ proc.running => proc.brain >= brain_saved

\* C18: wait_for_order_status always ends, and so does the
\* place_market_order around it, which returns the polled order or, after
\* the TimeoutError, the unfilled order_resp.  The loop goes on only after
\* a status outside target_statuses polled within the timeout; it returns
\* only on a target status, raises only when more than timeout seconds have
\* passed, never sleeps longer than max_backoff, and sees a failed poll as
\* status unknown.
C18_WaitSafe ==
    /\ wait.slept <= wait.max_backoff
    /\ wait.status \in {"", "pending", "filled", "unknown"}
    /\ (wait.pc = "poll" /\ wait.attempt > 0)
           => (wait.status \notin target_statuses /\ wait.checked <= wait.timeout)
    /\ wait.result = "order" => wait.status \in target_statuses
    /\ wait.result = "TimeoutError"
           => (wait.status \notin target_statuses /\ wait.checked > wait.timeout)
    /\ wait.pc = "done"
           => wait.fill = (IF wait.result = "order" THEN "polled order" ELSE "order_resp")

C18_WaitTerminates == []C18_WaitSafe /\ <>(wait.pc = "done")

C18_Witness ==
    /\ wait.pc = "done" /\ wait.result = "TimeoutError" /\ wait.fill = "order_resp"
    /\ wait.status = "unknown"
    /\ wait.attempt >= 3
    /\ wait.slept = wait.max_backoff
    /\ wait.poll_interval * (2 ^ (wait.attempt - 1)) > wait.max_backoff

\* C20: in every step of a live cycle, a position enters the ledger only
\* when the buy order of that step came back with a non-empty order id, and
\* a position becomes CLOSED only when the sell order of that step did.
C20_LedgerFollowsAcceptedOrders ==
    [][\A t \in Tickers :
          /\ (positions[t].status # "OPEN" /\ positions'[t].status = "OPEN")
                 => last_order' = "id"
          /\ (positions[t].status = "OPEN" /\ positions'[t].status = "CLOSED")
                 => last_order' = "id"]_vars

\* C21: a cycle never ends on an exception of its scan: whenever
\* execute_live_trading is over, it has returned its results with every
\* ticker of the ranked list processed.
C21_CycleNeverAborts ==
    cycle.pc = "idle" => (~cycle.raised /\ cycle.todo = <<>>)

\* C22: the list one check_exit_signals scan returns holds at most one
\* signal per position.
C22_OneExitSignalPerPosition ==
    \A t \in Tickers :
        Cardinality({i \in DOMAIN exit_scan.sigs : exit_scan.sigs[i].ticker = t}) <= 1

C24_GuardrailsOrSkip ==
    (sizing.called /\ sizing.out.action = "buy")
        => LET a == sizing.args
               qty == sizing.out.qty
           IN  /\ a.confidence >= confidence_threshold
               /\ qty >= min_qty
               /\ qty * a.price >= 10 * min_order_value
               /\ qty * a.price <= 10 * a.free_cash
               /\ a.avg_vol >= min_avg_volume
               /\ a.atr * 100 <= max_atr_pct * a.price
               /\ ~sizing.out.reduced

\* C25: get_dynamic_risk() never returns more than 0.30: for every configured
\* base risk, every streak state and every daily_pnl the result is in
\* [0, 0.30].
C25_RiskAtMostThirty ==
    risk_call.called => (risk_call.ret >= 0 /\ risk_call.ret <= TotalCap * ReinvestDen)

\* C27: every sell or partial-sell order the exit loop submits is for an OPEN
\* position of that ticker and for no more than its ledger quantity at that
\* moment; no SELL_PARTIAL order goes out for a ticker that an earlier signal
\* of the same cycle closed.
C27_SellsWithinLedger ==
    \A i \in 1..Len(cycle.exit_log) :
        LET e == cycle.exit_log[i]
        IN  e.ordered => (e.open /\ e.sold <= e.qty)

\* C28: there is one position per ticker: no step of a cycle submits a buy
\* for a ticker that has an OPEN ledger entry, and add_position never
\* replaces an OPEN entry (so the ledger quantity stays the quantity bought
\* minus the quantity sold).
C28_OnePositionPerTicker ==
    [][\A t \in Tickers :
          positions[t].status = "OPEN"
              => /\ ~(t \in cycle'.buys /\ t \notin cycle.buys)
                 /\ ~(t \in cycle'.adds /\ t \notin cycle.adds)]_vars

\* C29: each position's P&L is realized into the risk state exactly once:
\* a close_position call changes daily_pnl or the streak counters only when
\* it turns an OPEN record into a CLOSED one (a call for an absent or an
\* already CLOSED ticker changes nothing), and afterwards at most one of
\* consecutive_wins and consecutive_losses is non-zero.
C29_RealizedOnce ==
    [][/\ risk_state' # risk_state
            => \E t \in Tickers : /\ positions[t].status = "OPEN"
                                  /\ positions'[t].status = "CLOSED"
       /\ risk_state'.consecutive_wins = 0 \/ risk_state'.consecutive_losses = 0]_vars

\* a record without the fields check_exit_signals may write
ScanFrame(rec) ==
    [rec EXCEPT !.current_price = 0, !.stop_loss = 0, !.partial_taken = FALSE,
                !.updated = FALSE]

\* C30: whatever the ledger holds and whatever prices the feed returns,
\* check_exit_signals leaves every record that is not OPEN as it was, changes
\* of an OPEN record only current_price, stop_loss and partial_taken, and
\* leaves on file, for every position it scanned, the current_price and
\* stop_loss that update_position computed in that scan.
C30_ScanFrame ==
    \A price \in [Tickers -> Prices \cup {0}] :
        (\A t \in Tickers : positions[t].status # "OPEN" => price[t] = 0)
            => LET after == check_exit_signals(TheFile, price).file.recs
               IN  \A t \in Tickers :
                     IF positions[t].status # "OPEN"
                     THEN after[t] = positions[t]
                     ELSE /\ ScanFrame(after[t]) = ScanFrame(positions[t])
                          /\ price[t] # 0
                               => LET u == update_position(TheFile, t, price[t]).recs[t]
                                  IN  /\ after[t].current_price = u.current_price
                                      /\ after[t].stop_loss = u.stop_loss

\* the quantity sized for arguments a when get_dynamic_risk returned r
SizedAtRisk(a, r) == buy_sizing([a EXCEPT !.dynamic_risk = r]).qty

\* C26: the size of a new entry is scaled by the dynamic risk fraction: with
\* every other input equal, a lower non-zero risk never sizes a larger buy,
\* and for some inputs it sizes a strictly smaller one.
C26_SizeScalesWithRisk ==
    (sizing.called /\ sizing.out.action = "buy")
        => /\ \A r \in SizingRisks :
                 r <= sizing.args.dynamic_risk
                     => SizedAtRisk(sizing.args, r) <= sizing.out.qty
           /\ \E i \in SizingInputs, lo, hi \in SizingRisks :
                 /\ lo < hi
                 /\ SizedAtRisk(SizingArgs(i), lo) < SizedAtRisk(SizingArgs(i), hi)

====
